---- MODULE Spec2Model ----
(***************************************************************************)
(* SAV string simulations: the SAV time-stepping engine (sav_solver.py and *)
(* its earlier version SAVSolver.py), the finite-difference string model   *)
(* (fd_string_model.py) and the diagnostics sink (results_storage.py).     *)
(*                                                                         *)
(* Numbers.  The program computes in IEEE doubles; the model computes in   *)
(* exact rationals <<n, d>> (d > 0, lowest terms) whose numerator and      *)
(* denominator stay within Lim, every product tested before it is taken so *)
(* that none leaves the integers TLC has.  A result outside that range, a  *)
(* division by zero, or an irrational square                               *)
(* root, is NaR ("not a representable number") and every operation on NaR  *)
(* yields NaR: a run whose numbers leave the range says nothing, and the   *)
(* properties below speak of the numbers that stay in it.                  *)
(***************************************************************************)
EXTENDS Integers, Sequences, FiniteSets, TLC

\* ------------------------------------------------------------ bounds
MaxN == 2
\* durations are 0 .. MaxHalves half seconds
MaxHalves == 2
MaxSr == 2
\* the inputs Nu of a call of P_ext are 1 .. MaxNu
MaxNu == 2
\* the FD_string_model instances built in one session are at most MaxModels
MaxModels == 3
MaxSrs == 2
MaxGrid == 7
\* numerators and denominators kept: 2 * Lim < 2^31
Lim == 1000000000

\* ------------------------------------------------------------ rationals
NaR == <<0, 0>>
Zero == <<0, 1>>
One == <<1, 1>>
Two == <<2, 1>>
Four == <<4, 1>>
Half == <<1, 2>>
Quarter == <<1, 4>>

IAbs(n) == IF n < 0 THEN -n ELSE n

RECURSIVE GCD(_, _)
GCD(a, b) == IF b = 0 THEN a ELSE GCD(b, a % b)

Ok(x) == x[2] # 0

\* the product a * b stays within Lim
Fits(a, b) == a = 0 \/ b = 0 \/ IAbs(a) <= Lim \div IAbs(b)

\* n / d with d > 0, in lowest terms, NaR when it leaves the range
Norm(n, d) ==
    LET k == GCD(IAbs(n), d)
        nn == n \div k
        dd == d \div k
    IN IF IAbs(nn) > Lim \/ dd > Lim THEN NaR ELSE <<nn, dd>>

R(n) == <<n, 1>>

RNeg(a) == IF Ok(a) THEN <<-a[1], a[2]>> ELSE NaR

RAdd(a, b) ==
    IF ~Ok(a) \/ ~Ok(b) THEN NaR
    ELSE IF a[1] = 0 THEN b
    ELSE IF b[1] = 0 THEN a
    ELSE LET k == GCD(a[2], b[2])
             ad == a[2] \div k
             bd == b[2] \div k
         IN IF Fits(a[1], bd) /\ Fits(b[1], ad) /\ Fits(ad, b[2])
              THEN Norm(a[1] * bd + b[1] * ad, ad * b[2])
              ELSE NaR

RSub(a, b) == RAdd(a, RNeg(b))

RMul(a, b) ==
    IF ~Ok(a) \/ ~Ok(b) THEN NaR
    ELSE IF a[1] = 0 \/ b[1] = 0 THEN Zero
    ELSE LET k1 == GCD(IAbs(a[1]), b[2])
             k2 == GCD(IAbs(b[1]), a[2])
         IN IF Fits(a[1] \div k1, b[1] \div k2) /\ Fits(a[2] \div k2, b[2] \div k1)
              THEN <<(a[1] \div k1) * (b[1] \div k2), (a[2] \div k2) * (b[2] \div k1)>>
              ELSE NaR

\* 1 / a; a division by zero is outside the numbers kept
RInv(a) ==
    IF ~Ok(a) \/ a[1] = 0 THEN NaR
    ELSE IF a[1] > 0 THEN <<a[2], a[1]>> ELSE <<-a[2], -a[1]>>

RDiv(a, b) == RMul(a, RInv(b))

RSign(a) == IF ~Ok(a) THEN NaR ELSE IF a[1] > 0 THEN One ELSE IF a[1] < 0 THEN R(-1) ELSE Zero
RAbs(a) == IF ~Ok(a) THEN NaR ELSE <<IAbs(a[1]), a[2]>>
RLt(a, b) == Ok(RSub(a, b)) /\ RSub(a, b)[1] < 0
RLe(a, b) == Ok(RSub(a, b)) /\ RSub(a, b)[1] <= 0

\* integer square root of a perfect square, -1 otherwise
RECURSIVE ISqrtIn(_, _, _)
ISqrtIn(n, lo, hi) ==
    IF lo = hi THEN (IF lo * lo = n THEN lo ELSE -1)
    ELSE IF ((lo + hi + 1) \div 2) * ((lo + hi + 1) \div 2) <= n
           THEN ISqrtIn(n, (lo + hi + 1) \div 2, hi)
           ELSE ISqrtIn(n, lo, ((lo + hi + 1) \div 2) - 1)

ISqrt(n) == ISqrtIn(n, 0, 46340)

\* np.sqrt on the rationals kept: exact on squares of rationals
RSqrt(a) ==
    IF ~Ok(a) \/ a[1] < 0 THEN NaR
    ELSE LET n == ISqrt(a[1])
             d == ISqrt(a[2])
         IN IF n < 0 \/ d < 0 THEN NaR ELSE <<n, d>>

\* ------------------------------------------------------------ vectors
\* an ndarray of shape (N,) is a sequence of N rationals; a scalar
\* broadcasts against it (numpy broadcasting of a 0-d operand)
VOk(v) == \A i \in 1..Len(v) : Ok(v[i])
VZero(n) == [i \in 1..n |-> Zero]
VOnes(n) == [i \in 1..n |-> One]
VAdd(u, v) == [i \in 1..Len(u) |-> RAdd(u[i], v[i])]
VSub(u, v) == [i \in 1..Len(u) |-> RSub(u[i], v[i])]
VMul(u, v) == [i \in 1..Len(u) |-> RMul(u[i], v[i])]
VDiv(u, v) == [i \in 1..Len(u) |-> RDiv(u[i], v[i])]
VNeg(v) == [i \in 1..Len(v) |-> RNeg(v[i])]
VScale(c, v) == [i \in 1..Len(v) |-> RMul(c, v[i])]

RECURSIVE DotFrom(_, _, _)
DotFrom(u, v, i) == IF i > Len(u) THEN Zero ELSE RAdd(RMul(u[i], v[i]), DotFrom(u, v, i + 1))
\* u.dot(v) of two vectors
Dot(u, v) == DotFrom(u, v, 1)

\* G @ u for G of shape (N, Nu), a sequence of N rows
MatVec(G, u) == [i \in 1..Len(G) |-> Dot(G[i], u)]

\* ------------------------------------------------------------ the string model
\* fd_string_model.py: the attributes its operators read.  h_stability ends
\* with h = l0 / (N + 1); build_matrices sets the scalars J0 = 1 and
\* M = rhol * h; __init__ sets Nu = 1 and the two nonlinearity constants.
build_matrices(N, l0, rhol) ==
    LET h == RDiv(l0, R(N + 1))
    IN [h |-> h, J0 |-> One, M |-> RMul(One, RMul(rhol, h))]

FD_string_model(N, l0, rhol, T, E, A, I, eta_0, eta_1, NL_type) ==
    LET bm == build_matrices(N, l0, rhol)
    IN [N |-> N, Nu |-> 1, l0 |-> l0, rhol |-> rhol, T |-> T, E |-> E, A |-> A,
        I |-> I, eta_0 |-> eta_0, eta_1 |-> eta_1, NL_type |-> NL_type,
        h |-> bm.h, J0 |-> bm.J0, M |-> bm.M,
        EnlGeomConst |-> RMul(RDiv(RSub(RMul(E, A), T), R(8)), bm.h),
        EnlKCConst |-> RMul(RDiv(RMul(E, A), RMul(R(8), l0)), RMul(bm.h, bm.h))]

\* Rmid(q): a scalar, the same for every q
Rmid(m, q) == RMul(RMul(RMul(Two, m.rhol), m.eta_0), m.h)

\* d2xq_op: second difference with fixed ends
d2xq_op(m, q) ==
    LET n == Len(q)
        raw == [i \in 1..n |->
                  RAdd(RAdd(RMul(R(-2), q[i]),
                            IF i < n THEN q[i + 1] ELSE Zero),
                       IF i > 1 THEN q[i - 1] ELSE Zero)]
        h2 == RMul(m.h, m.h)
    IN [i \in 1..n |-> RDiv(raw[i], h2)]

d4xq_op(m, d2xq) == d2xq_op(m, d2xq)

K_op(m, q) ==
    LET d2xq == d2xq_op(m, q)
        d4xq == d4xq_op(m, d2xq)
    IN VAdd(VScale(RNeg(RMul(m.h, m.T)), d2xq),
            VScale(RMul(RMul(m.h, m.E), m.I), d4xq))

Rsv_op(m, v) ==
    VScale(RNeg(RMul(RMul(RMul(Two, m.rhol), m.h), m.eta_1)), d2xq_op(m, v))

\* G(q): an N x Nu matrix of zeros with a one in row N // 2 (rows from 0)
G(m, q) == [i \in 1..m.N |-> [j \in 1..m.Nu |->
               IF i = (m.N \div 2) + 1 /\ j = 1 THEN One ELSE Zero]]

\* the scratch buffer dxq of length N + 1, as Enl, Fnl and EandFnl fill it
dxq_of(m, q) ==
    LET n == Len(q)
    IN [i \in 1..(n + 1) |->
          RDiv(RSub(IF i <= n THEN q[i] ELSE Zero,
                    IF i > 1 THEN q[i - 1] ELSE Zero), m.h)]

RPow4(x) == RMul(RMul(x, x), RMul(x, x))
RPow3(x) == RMul(RMul(x, x), x)

RECURSIVE SumFrom(_, _)
SumFrom(v, i) == IF i > Len(v) THEN Zero ELSE RAdd(v[i], SumFrom(v, i + 1))

\* np.sqrt(1 + dxq * dxq) of the GE case
inter0(dxq) == [i \in 1..Len(dxq) |-> RSqrt(RAdd(One, RMul(dxq[i], dxq[i])))]

\* (E A - T) * (dxq * (inter0 - 1) / inter0) of the GE case
inter1(m, dxq) ==
    [i \in 1..Len(dxq) |->
        RMul(RSub(RMul(m.E, m.A), m.T),
             RDiv(RMul(dxq[i], RSub(inter0(dxq)[i], One)), inter0(dxq)[i]))]

\* what Enl returns once the buffer dxq is filled
Enl_on(m, dxq) ==
    CASE m.NL_type = "GE4" ->
           RMul(m.EnlGeomConst, SumFrom([i \in 1..Len(dxq) |-> RPow4(dxq[i])], 1))
      [] m.NL_type = "GE" ->
           LET d == [i \in 1..Len(dxq) |-> RSub(inter0(dxq)[i], One)]
           IN RMul(RDiv(RMul(RSub(RMul(m.E, m.A), m.T), m.h), Two), Dot(d, d))
      [] m.NL_type = "KC" ->
           LET dd == Dot(dxq, dxq) IN RMul(m.EnlKCConst, RMul(dd, dd))
      [] OTHER -> Zero

\* what Fnl returns once the buffer dxq is filled
Fnl_on(m, dxq) ==
    LET mh == RNeg(RInv(m.h))
    IN CASE m.NL_type = "GE4" ->
              [i \in 1..m.N |->
                  RMul(RMul(Four, m.EnlGeomConst),
                       RMul(mh, RSub(RPow3(dxq[i + 1]), RPow3(dxq[i]))))]
         [] m.NL_type = "GE" ->
              [i \in 1..m.N |->
                  RNeg(RSub(inter1(m, dxq)[i + 1], inter1(m, dxq)[i]))]
         [] m.NL_type = "KC" ->
              LET dd == Dot(dxq, dxq)
              IN [i \in 1..m.N |->
                  RMul(RMul(RMul(Four, m.EnlKCConst), dd),
                       RMul(mh, RSub(dxq[i + 1], dxq[i])))]
         [] OTHER -> VZero(m.N)

\* what EandFnl returns once the buffer dxq is filled; the last case calls
\* Enl and Fnl
EandFnl_on(m, dxq) ==
    LET mh == RNeg(RInv(m.h))
    IN CASE m.NL_type = "GE4" ->
              <<RMul(m.EnlGeomConst, SumFrom([i \in 1..Len(dxq) |-> RPow4(dxq[i])], 1)),
                [i \in 1..m.N |->
                  RMul(RMul(Four, m.EnlGeomConst),
                       RMul(mh, RSub(RPow3(dxq[i + 1]), RPow3(dxq[i]))))]>>
         [] m.NL_type = "GE" ->
              LET d == [i \in 1..Len(dxq) |-> RSub(inter0(dxq)[i], One)]
              IN <<RMul(RDiv(RMul(RSub(RMul(m.E, m.A), m.T), m.h), Two), Dot(d, d)),
                   [i \in 1..m.N |->
                      RNeg(RSub(inter1(m, dxq)[i + 1], inter1(m, dxq)[i]))]>>
         [] m.NL_type = "KC" ->
              LET dd == Dot(dxq, dxq)
              IN <<RMul(m.EnlKCConst, RMul(dd, dd)),
                   [i \in 1..m.N |->
                      RMul(RMul(RMul(Four, m.EnlKCConst), dd),
                           RMul(mh, RSub(dxq[i + 1], dxq[i])))]>>
         [] OTHER -> <<Enl_on(m, dxq), Fnl_on(m, dxq)>>

\* Enl(q), Fnl(q) and EandFnl(q) as functions of q: each call fills every
\* entry of the buffer from q before it reads it
Enl(m, q) == Enl_on(m, dxq_of(m, q))

Fnl(m, q) == Fnl_on(m, dxq_of(m, q))

EandFnl(m, q) == EandFnl_on(m, dxq_of(m, q))

\* a defective fill of the buffer that skips self.dxq[-1] = 0
dxq_fill_keep_end(dxq, q, h) ==
    LET n == Len(dxq)
        b == [i \in 1..n |-> IF i < n THEN q[i] ELSE dxq[i]]
        c == [i \in 1..n |-> IF i > 1 THEN RSub(b[i], q[i - 1]) ELSE b[i]]
    IN [i \in 1..n |-> RDiv(c[i], h)]

\* the four statements that fill the buffer self.dxq of length N + 1 in place:
\* dxq[-1] = 0; dxq[:-1] = q; dxq[1:] -= q; dxq /= h
dxq_fill(dxq, q, h) ==
    LET n == Len(dxq)
        a == [dxq EXCEPT ![n] = Zero]
        b == [i \in 1..n |-> IF i < n THEN q[i] ELSE a[i]]
        c == [i \in 1..n |-> IF i > 1 THEN RSub(b[i], q[i - 1]) ELSE b[i]]
    IN [i \in 1..n |-> RDiv(c[i], h)]

\* the cases of the match statements that fill the buffer
FillsDxq(m) == m.NL_type \in {"GE4", "GE", "KC"}

\* the methods Enl, Fnl and EandFnl of a string whose buffer holds dxq: the
\* buffer they leave and what they return
Enl_call(m, dxq, q) ==
    LET f == IF FillsDxq(m) THEN dxq_fill(dxq, q, m.h) ELSE dxq
    IN [dxq |-> f, E |-> Enl_on(m, f)]

Fnl_call(m, dxq, q) ==
    LET f == IF FillsDxq(m) THEN dxq_fill(dxq, q, m.h) ELSE dxq
    IN [dxq |-> f, F |-> Fnl_on(m, f)]

EandFnl_call(m, dxq, q) ==
    LET f == IF FillsDxq(m) THEN dxq_fill(dxq, q, m.h) ELSE dxq
    IN [dxq |-> f, E |-> EandFnl_on(m, f)[1], F |-> EandFnl_on(m, f)[2]]

\* ------------------------------------------------------------ the solver
\* sav_solver.py.  s is the solver object, m the model it holds.  M, J0 and
\* Rmid of the string model are scalars and broadcast; the cached Rmidn is
\* kept broadcast to length N.
BcN(x, n) == [i \in 1..n |-> x]

\* a defective division: Num_eps left out of the root
DivSqrtEps_noeps(f, x) == RDiv(f, RSqrt(x))

\* f / np.sqrt(x + Num_eps), Num_eps = 1e-16.  For x > 0 the sum rounds to x
\* at the tolerance of the doubles; at x = 0 the root is 1e-8 and
\* f / 1e-8 = 1e8 * f, which is zero for f = 0 and leaves the range otherwise.
DivSqrtEps(f, x) ==
    IF ~Ok(x) THEN NaR
    ELSE IF x = Zero THEN (IF f = Zero THEN Zero ELSE NaR)
    ELSE RDiv(f, RSqrt(x))

\* np.sign(p) / (np.abs(p) + Num_eps): zero at p = 0 because sign(0) = 0
SignOverAbsEps(p) ==
    IF ~Ok(p) THEN NaR
    ELSE IF p = Zero THEN Zero
    ELSE RDiv(RSign(p), RAbs(p))

\* a defective Ek_tilde: the kinetic energy of the continuous system, without
\* the terms in dt that make the energy of the scheme
Ek_tilde_continuous(s, m, p) == RMul(Half, Dot(p, VScale(RInv(m.M), p)))

Ek_tilde(s, m, p) ==
    LET t1 == VScale(RMul(RInv(m.M), One), p)
        t2 == VScale(RMul(RDiv(RMul(RDiv(s.dt2, Four), m.J0), m.M), One),
                     K_op(m, VScale(RDiv(m.J0, m.M), p)))
        t3 == VScale(RDiv(s.dt, RMul(Two, m.M)), Rsv_op(m, VScale(RInv(m.M), p)))
    IN RMul(Half, Dot(p, VSub(VSub(t1, t2), t3)))

Ek(s, m, p) == RMul(Half, Dot(p, VScale(RInv(m.M), p)))

Ep_lin(s, m, q) == RMul(Half, Dot(q, K_op(m, q)))

Ep_nl(s, m, q) == Enl(m, q)

Ep_nl_sav(s, r) == RMul(RMul(Half, r), r)

E_tilde(s, m, q, p, r) == RAdd(RAdd(Ek_tilde(s, m, p), Ep_lin(s, m, q)), Ep_nl_sav(s, r))

P_stored(s, Enow, Enext) == RDiv(RSub(Enext, Enow), s.dt)

P_diss(s, m, pnow, pnext, Rmidv) ==
    LET mutv == VScale(RInv(RMul(Two, m.M)), VAdd(pnow, pnext))
    IN Dot(mutv, VAdd(VMul(Rmidv, mutv), Rsv_op(m, mutv)))

\* -mutv.dot(G * u): G * u scales column j of G by u[j] and the dot with the
\* N-vector mutv leaves one entry per column
P_ext(s, m, pnow, pnext, Gm, u) ==
    LET mutv == VScale(RInv(RMul(Two, m.M)), VAdd(pnow, pnext))
        Gu == [i \in 1..Len(Gm) |-> [j \in 1..Len(u) |-> RMul(Gm[i][j], u[j])]]
    IN [j \in 1..Len(u) |-> RNeg(Dot(mutv, [i \in 1..Len(Gm) |-> Gu[i][j]]))]

A0_inv(s, m, Rmidv) ==
    [i \in 1..m.N |->
        RDiv(RMul(RMul(Two, s.dt2), One),
             RAdd(RMul(Two, m.M), RMul(s.dt, Rmidv[i])))]

B_op(s, m, q) ==
    VSub(VSub(VScale(RDiv(RMul(Two, m.M), RMul(s.dt2, m.J0)), q),
              VScale(m.J0, K_op(m, q))),
         VScale(RInv(s.dt), Rsv_op(m, VScale(RInv(m.J0), q))))

C_op(s, m, q, gv, Rmidv) ==
    LET qJ == VScale(RInv(m.J0), q)
        a == [i \in 1..m.N |->
                RMul(RSub(RDiv(m.M, s.dt2), RDiv(Rmidv[i], RMul(Two, s.dt))), qJ[i])]
        b == VScale(RMul(Quarter, Dot(gv, qJ)), gv)
        c == VScale(RInv(s.dt), Rsv_op(m, qJ))
    IN VNeg(VMul(VOnes(m.N), VSub(VSub(a, b), c)))

g(s, m, q) ==
    LET ef == EandFnl(m, q)
        rad == RAdd(RMul(Two, ef[1]), s.C0)
    IN [i \in 1..Len(q) |-> DivSqrtEps(RMul(m.J0, ef[2][i]), rad)]

\* a defective drift: the offset of the root taken as 1 whatever C0
drift_unit_offset(s, m, q, r) == RSub(r, RSqrt(RAdd(RMul(Two, Enl(m, q)), One)))

\* the drift r - sqrt(2 Enl(q) + C0) that g_mod leaves in self.epsilon
drift(s, m, q, r) == RSub(r, RSqrt(RAdd(RMul(Two, Enl(m, q)), s.C0)))

\* a defective g_mod: the controller on with gain 1 whatever lambda0
g_mod_gain1(s, m, q, p, r) ==
    LET c == RMul(RMul(RNeg(One), drift(s, m, q, r)), m.M)
    IN [i \in 1..Len(p) |-> RMul(c, SignOverAbsEps(p[i]))]

g_mod(s, m, q, p, r) ==
    LET c == RMul(RMul(RNeg(s.lambda0), drift(s, m, q, r)), m.M)
    IN [i \in 1..Len(p) |-> RMul(c, SignOverAbsEps(p[i]))]

\* a defective solve: the denominator 1 + g.(A0_inv g)
solve_den1(s, m, gn, A0, RHSn) ==
    VSub(VScale(m.J0, VMul(A0, RHSn)),
         VScale(Dot(gn, VMul(A0, RHSn)),
                VScale(RInv(RAdd(One, Dot(gn, VMul(A0, gn)))),
                       VScale(m.J0, VMul(A0, gn)))))

\* the Sherman-Morrison solve of lines 371-376
solve(s, m, gn, A0, RHSn) ==
    LET den == RAdd(Four, Dot(gn, VMul(A0, gn)))
        x0 == VScale(m.J0, VMul(A0, RHSn))
        corr == VScale(Dot(gn, VMul(A0, RHSn)),
                       VScale(RInv(den), VScale(m.J0, VMul(A0, gn))))
    IN VSub(x0, corr)

\* time_step, lines 378-380: the update of the auxiliary variable and the
\* five values returned; gn, Gn, Rmidn, A0_inv_n and RHSn stay on the solver
time_step_rnext(m, qlast, rn, pn, qn, eps, gn, Gn, Rmidn, A0, RHSn, calls, qnext) ==
    [qnext |-> qnext,
     rnext |-> RAdd(rn, Dot(gn, VScale(RInv(RMul(Two, m.J0)), VSub(qnext, qlast)))),
     qn |-> qn, pn |-> pn, epsilon |-> eps,
     gn |-> gn, Gn |-> Gn, Rmidn |-> Rmidn, A0_inv_n |-> A0, RHSn |-> RHSn,
     rmid_calls |-> calls]

\* time_step, lines 371-376: the right-hand side and the solve
time_step_qnext(s, m, qlast, qnow, rn, unow, pn, qn, eps, gn, Gn, Rmidn, A0, calls) ==
    LET RHSn == VAdd(VSub(VAdd(B_op(s, m, qnow), C_op(s, m, qlast, gn, Rmidn)),
                          VScale(rn, gn)),
                     MatVec(Gn, unow))
    IN time_step_rnext(m, qlast, rn, pn, qn, eps, gn, Gn, Rmidn, A0, RHSn, calls,
                       solve(s, m, gn, A0, RHSn))

\* a defective time_step that recomputes Rmid and A0_inv whatever ConstantRmid
time_step_Rmid_always(s, m, qlast, qnow, rn, unow, ConstantRmid, pn, qn, eps, gn) ==
    time_step_qnext(s, m, qlast, qnow, rn, unow, pn, qn, eps, gn, G(m, qnow),
                    BcN(Rmid(m, qnow), m.N), A0_inv(s, m, BcN(Rmid(m, qnow), m.N)), 1)

\* a defective time_step that never recomputes Rmid and A0_inv
time_step_Rmid_never(s, m, qlast, qnow, rn, unow, ConstantRmid, pn, qn, eps, gn) ==
    time_step_qnext(s, m, qlast, qnow, rn, unow, pn, qn, eps, gn, G(m, qnow),
                    s.Rmidn, s.A0_inv_n, IF ConstantRmid THEN 0 ELSE 1)

\* time_step, lines 364-369: G(qnow), and Rmid(qnow) and A0_inv of it unless
\* ConstantRmid says that the cached ones stand
time_step_Rmid(s, m, qlast, qnow, rn, unow, ConstantRmid, pn, qn, eps, gn) ==
    LET Rmidn == IF ConstantRmid THEN s.Rmidn ELSE BcN(Rmid(m, qnow), m.N)
    IN time_step_qnext(s, m, qlast, qnow, rn, unow, pn, qn, eps, gn, G(m, qnow), Rmidn,
                       IF ConstantRmid THEN s.A0_inv_n ELSE A0_inv(s, m, Rmidn),
                       IF ConstantRmid THEN 0 ELSE 1)

\* time_step, lines 360-362: p and the midpoint from the two inputs, then g
time_step(s, m, qlast, qnow, rn, unow, ConstantRmid) ==
    LET pn == VScale(s.M_J0dt, VSub(qnow, qlast))
        qn == VScale(Half, VAdd(qlast, qnow))
    IN time_step_Rmid(s, m, qlast, qnow, rn, unow, ConstantRmid, pn, qn,
                      drift(s, m, qn, rn),
                      VAdd(g(s, m, qnow), g_mod(s, m, qn, pn, rn)))

\* ------------------------------------------------------------ the dimensional validator
\* What a Model answers when the validator reaches one of its members:
\* st = "ok" with the shape sh of the value, "raises" or "missing".
\* A shape is numpy's: <<>> a scalar, <<n>> a vector, <<n, k>> a matrix.
Members == {"J0", "M", "Rmid", "K_op", "Rsv_op", "G", "Enl", "Fnl", "EandFnl", "setting"}

Has(sh) == [st |-> "ok", sh |-> sh]
Raises == [st |-> "raises", sh |-> <<>>]
Missing == [st |-> "missing", sh |-> <<>>]

\* fd_string_model.py: J0, M and Rmid(q) are scalars, G(q) is N x Nu, the
\* other operators return N-vectors, Enl a scalar
FDShapes(N, Nu) ==
    [J0 |-> Has(<<>>), M |-> Has(<<>>), Rmid |-> Has(<<>>), K_op |-> Has(<<N>>),
     Rsv_op |-> Has(<<N>>), G |-> Has(<<N, Nu>>), Enl |-> Has(<<>>),
     Fnl |-> Has(<<N>>), EandFnl |-> Has(<<N>>), setting |-> Has(<<>>)]

BadShape == <<-1>>

\* numpy broadcasting of two shapes of at most one dimension against each
\* other (BadShape when they do not broadcast)
Broadcast(a, b) ==
    IF a = BadShape \/ b = BadShape THEN BadShape
    ELSE IF Len(a) = 0 THEN b
    ELSE IF Len(b) = 0 THEN a
    ELSE IF Len(a) # 1 \/ Len(b) # 1 THEN BadShape
    ELSE IF a[1] = b[1] THEN a
    ELSE IF a[1] = 1 THEN b
    ELSE IF b[1] = 1 THEN a
    ELSE BadShape

NoError == [kind |-> "none", op |-> ""]
ContractError(op) == [kind |-> "contract", op |-> op]
\* an exception that is not the validator's own: the model's, or Python's
RawError(op) == [kind |-> "raw", op |-> op]

\* lines 78-83 and 93-108: the call in a try block, the shape compared
\* with J0x.shape
CheckedCall(b, J0x, op) ==
    IF b.st # "ok" THEN ContractError(op)
    ELSE IF b.sh # J0x THEN ContractError(op)
    ELSE NoError

\* lines 57-76: the member times x inside try, any exception (the shape
\* complaint included) replaced by "... cannot be applied"
CheckedProduct(b, x, want, op) ==
    IF b.st # "ok" THEN ContractError(op)
    ELSE IF Broadcast(b.sh, x) # want THEN ContractError(op)
    ELSE NoError

\* lines 87-92: the except clause builds an Exception it never raises, and
\* building it reads self.u, which no solver has: AttributeError
CheckG(b, N, Nu) ==
    IF b.st # "ok" THEN RawError("u")
    ELSE IF b.sh # <<N, Nu>> THEN ContractError("G")
    ELSE NoError

\* the first complaint of a sequence of checks
RECURSIVE FirstError(_)
FirstError(errs) ==
    IF errs = <<>> THEN NoError
    ELSE IF Head(errs).kind # "none" THEN Head(errs)
    ELSE FirstError(Tail(errs))

\* check_sizes of sav_solver.py, on the answers sh of the model's members
check_sizes(sh, N, Nu) ==
    LET x == <<N>>
        J0x == IF sh.J0.st = "ok" THEN Broadcast(sh.J0.sh, x) ELSE x
    IN FirstError(<<
         IF sh.J0.st # "ok" \/ J0x = BadShape \/ J0x # <<N>>
           THEN ContractError("J0") ELSE NoError,
         CheckedProduct(sh.M, x, J0x, "M"),
         CheckedProduct(sh.Rmid, x, J0x, "Rmid"),
         CheckedCall(sh.K_op, J0x, "K_op"),
         \* line 84: Rsv_op is called outside any try
         IF sh.Rsv_op.st = "raises" THEN RawError("")
           ELSE IF sh.Rsv_op.st = "missing" THEN RawError("Rsv_op")
           ELSE IF sh.Rsv_op.sh # J0x THEN ContractError("Rsv_op") ELSE NoError,
         CheckG(sh.G, N, Nu),
         IF sh.Enl.st # "ok" THEN ContractError("Enl") ELSE NoError,
         CheckedCall(sh.Fnl, J0x, "Fnl"),
         CheckedCall(sh.EandFnl, J0x, "EandFnl")
         \* lines 110-113: a missing setting() is printed, not raised
       >>)

\* line 36, before check_sizes: M / (dt * J0)
init_quantities(sh) ==
    IF sh.M.st # "ok" THEN RawError("M")
    ELSE IF sh.J0.st # "ok" THEN RawError("J0")
    ELSE IF Broadcast(sh.M.sh, sh.J0.sh) = BadShape THEN RawError("")
    ELSE NoError

\* check_sizes of SAVSolver.py: J0, M and Rmid(x) must be arrays of shape (N,)
legacy_check_sizes(sh, N, Nu) ==
    LET J0s == sh.J0.sh
    IN FirstError(<<
         IF Len(J0s) = 0 THEN RawError("")
           ELSE IF J0s[1] # N \/ Len(J0s) # 1 THEN ContractError("J0") ELSE NoError,
         IF sh.M.sh # J0s THEN ContractError("M") ELSE NoError,
         IF sh.Rmid.st = "raises" THEN RawError("")
           ELSE IF sh.Rmid.st = "missing" THEN RawError("Rmid")
           ELSE IF sh.Rmid.sh # J0s THEN ContractError("Rmid") ELSE NoError,
         CheckedCall(sh.K_op, J0s, "K_op"),
         IF sh.Rsv_op.st = "raises" THEN RawError("")
           ELSE IF sh.Rsv_op.st = "missing" THEN RawError("Rsv_op")
           ELSE IF sh.Rsv_op.sh # J0s THEN ContractError("Rsv_op") ELSE NoError,
         CheckG(sh.G, N, Nu),
         IF sh.Enl.st # "ok" THEN ContractError("Enl") ELSE NoError,
         IF sh.Fnl.st # "ok" THEN ContractError("Fnl")
           ELSE IF Len(sh.Fnl.sh) = 0 THEN RawError("")
           ELSE IF sh.Fnl.sh[1] # N THEN ContractError("Fnl") ELSE NoError,
         IF sh.EandFnl.st # "ok" THEN ContractError("EandFnl")
           ELSE IF Len(sh.EandFnl.sh) = 0 THEN RawError("")
           ELSE IF sh.EandFnl.sh[1] # N THEN ContractError("EandFnl") ELSE NoError
       >>)

\* ------------------------------------------------------------ the diagnostics sink
\* results_storage.py
DEFAULT_STORAGE_CONFIG == [Energy |-> TRUE, Power |-> TRUE, Drift |-> TRUE, SAV |-> TRUE]
STATE_STORAGE_CONFIG == [Energy |-> FALSE, Power |-> FALSE, Drift |-> TRUE, SAV |-> TRUE]

NoStorage ==
    [reserved |-> FALSE, Energy |-> FALSE, Power |-> FALSE, Drift |-> FALSE, SAV |-> FALSE,
     Nt |-> 0, Etot |-> <<>>, Ekin |-> <<>>, Eplin |-> <<>>, Epnl |-> <<>>,
     Ptot |-> <<>>, Pdiss |-> <<>>, Pext |-> <<>>, Pstored |-> <<>>,
     epsilon |-> <<>>, q |-> <<>>, p |-> <<>>, r |-> <<>>, plast |-> <<>>, i |-> -1,
     Energy_init |-> FALSE]

Zeros(on, n) == IF on THEN [k \in 1..n |-> Zero] ELSE <<>>

\* a defective reserve that leaves Energy as the caller gave it
reserve_as_given(cfg, Nt, N) ==
    [reserved |-> TRUE, Energy |-> cfg.Energy, Power |-> cfg.Power, Drift |-> cfg.Drift,
     SAV |-> cfg.SAV, Nt |-> Nt,
     Etot |-> Zeros(cfg.Energy, Nt), Ekin |-> Zeros(cfg.Energy, Nt),
     Eplin |-> Zeros(cfg.Energy, Nt), Epnl |-> Zeros(cfg.Energy, Nt),
     Ptot |-> Zeros(cfg.Power, Nt), Pdiss |-> Zeros(cfg.Power, Nt),
     Pext |-> Zeros(cfg.Power, Nt), Pstored |-> Zeros(cfg.Power, Nt),
     epsilon |-> Zeros(cfg.Drift, Nt),
     q |-> [k \in 1..Nt |-> VZero(N)], p |-> [k \in 1..Nt |-> VZero(N)],
     r |-> Zeros(cfg.SAV, Nt), plast |-> <<>>, i |-> -1,
     Energy_init |-> cfg.Energy]

\* reserve(t, model, solver): Power forces Energy; zero arrays of length Nt.
\* Neither __init__ nor reserve sets the attribute i (-1: no such attribute);
\* store is the one place that does (line 111).
\* Energy_init keeps the Energy that __init__ took from the storage_config
\* (line 36).
reserve(cfg, Nt, N) ==
    LET Energy == IF cfg.Power THEN TRUE ELSE cfg.Energy
    IN [reserved |-> TRUE, Energy |-> Energy, Power |-> cfg.Power, Drift |-> cfg.Drift,
        SAV |-> cfg.SAV, Nt |-> Nt,
        Etot |-> Zeros(Energy, Nt), Ekin |-> Zeros(Energy, Nt),
        Eplin |-> Zeros(Energy, Nt), Epnl |-> Zeros(Energy, Nt),
        Ptot |-> Zeros(cfg.Power, Nt), Pdiss |-> Zeros(cfg.Power, Nt),
        Pext |-> Zeros(cfg.Power, Nt), Pstored |-> Zeros(cfg.Power, Nt),
        epsilon |-> Zeros(cfg.Drift, Nt),
        q |-> [k \in 1..Nt |-> VZero(N)], p |-> [k \in 1..Nt |-> VZero(N)],
        r |-> Zeros(cfg.SAV, Nt), plast |-> <<>>, i |-> -1,
        Energy_init |-> cfg.Energy]

\* store(q, p, r, epsilon, i, Rmid, G, u, solver); index i counts from 0 and
\* lives at position i + 1 of the sequences

\* lines 84-88
store_energy(st, k, Ekin, Eplin, Epnl) ==
    IF st.Energy
      THEN [st EXCEPT !.Ekin[k] = Ekin, !.Eplin[k] = Eplin, !.Epnl[k] = Epnl,
                      !.Etot[k] = RAdd(RAdd(Ekin, Eplin), Epnl)]
      ELSE st

\* lines 90-100, q_idx and p_idx naming every node
store_state(st, k, q, p, r, epsilon) ==
    [st EXCEPT !.epsilon = IF st.Drift THEN [@ EXCEPT ![k] = epsilon] ELSE @,
               !.q[k] = q, !.p[k] = p,
               !.r = IF st.SAV THEN [@ EXCEPT ![k] = r] ELSE @]

\* lines 104-107, i > 0
store_power_values(st, k, Pstored, Pdiss, Pext) ==
    [st EXCEPT !.Pstored[k] = Pstored, !.Pdiss[k] = Pdiss, !.Pext[k] = Pext,
               !.Ptot[k] = RAdd(RAdd(Pstored, Pdiss), Pext)]

\* lines 102-111: the powers between the momentum kept from the previous
\* call and the one of this call, with the Rmid, G and u of this call
store_power(st, s, m, p, i, Rmidv, Gm, u) ==
    IF st.Power
      THEN [(IF i > 0
               THEN store_power_values(st, i + 1,
                                       P_stored(s, st.Etot[i], st.Etot[i + 1]),
                                       P_diss(s, m, st.plast, p, Rmidv),
                                       P_ext(s, m, st.plast, p, Gm, u)[1])
               ELSE st) EXCEPT !.plast = p, !.i = i + 1]
      ELSE [st EXCEPT !.i = i + 1]

\* a defective store that forgets to advance its counter
store_stale_counter(st, s, m, q, p, r, epsilon, i, Rmidv, Gm, u) ==
    [store_power(store_state(store_energy(st, i + 1, Ek_tilde(s, m, p), Ep_lin(s, m, q),
                                          Ep_nl_sav(s, r)),
                             i + 1, q, p, r, epsilon),
                 s, m, p, i, Rmidv, Gm, u) EXCEPT !.i = i]

store(st, s, m, q, p, r, epsilon, i, Rmidv, Gm, u) ==
    store_power(store_state(store_energy(st, i + 1, Ek_tilde(s, m, p), Ep_lin(s, m, q),
                                         Ep_nl_sav(s, r)),
                            i + 1, q, p, r, epsilon),
                s, m, p, i, Rmidv, Gm, u)

\* ------------------------------------------------------------ state
VARIABLES
    model,      \* the Model instance (its attributes), shared by reference
    solver,     \* the SAVSolver instance
    run,        \* the frame of integrate: its locals and loop position
    storage,    \* solver.storage, the ResultsStorage of the run
    last,       \* the latest time_step call: its arguments and what it returned
    hist,       \* history: what has happened so far
    string_module,  \* fd_string_model.py: its dict of defaults, the strings built
    shared,     \* two solvers on one Model: model.Nt and the frames of integrate
    fd_string,  \* a string whose evaluators a script calls: its buffer dxq, the returns
    sweep       \* run_convergence_new.py: the position in its loops, the node it stores

\* the objects of one solver and its run
engine_vars == <<model, solver, run, storage, last, hist>>

vars == <<model, solver, run, storage, last, hist, string_module, shared, fd_string, sweep>>

NoModel == [exists |-> FALSE]

NoSolver ==
    [state |-> "none", impl |-> "", sr |-> 0, dt |-> Zero, dt2 |-> Zero, C0 |-> Zero,
     lambda0 |-> Zero, M_J0dt |-> Zero, Gn |-> <<>>, Rmidn |-> <<>>, A0_inv_n |-> <<>>,
     gn |-> <<>>, RHSn |-> <<>>, epsilon |-> Zero, error |-> NoError]

NoRun ==
    [pc |-> "idle", i |-> 0, Nt |-> 0, qlast |-> <<>>, qnow |-> <<>>, rnow |-> Zero,
     rshape |-> <<>>, ConstantRmid |-> FALSE, ufun |-> "zero", q0 |-> <<>>, u0 |-> <<>>]

NoCall ==
    [called |-> FALSE, qlast |-> <<>>, qnow |-> <<>>, rn |-> Zero, rshape |-> <<>>,
     unow |-> <<>>, ConstantRmid |-> FALSE, t |-> Zero, ret |-> <<>>]

NoHist ==
    [validated |-> FALSE, rmid_calls |-> 0, a0_calls |-> 0, steps |-> 0,
     Rmid0 |-> <<>>, A00 |-> <<>>, stepped_unvalidated |-> FALSE,
     \* the indices store was called with, in the order of the calls
     store_calls |-> <<>>,
     \* the first time_step call made on the solver: arguments and values
     first |-> [args |-> <<>>, ret |-> <<>>],
     \* a call of an accounting method made on the solver by its owner; ret
     \* is the numbers of the returned value, one number for a scalar
     call |-> [method |-> "", args |-> <<>>, ret |-> <<>>]]

\* fd_string_model.py lines 8-21: the dict DEFAULT_STRING_PARAMS as the module
\* builds it at import, for the keys the overrides of the inputs touch
DEFAULT_STRING_PARAMS == [NL_type |-> "GE4", T |-> 60]

\* the module fd_string_model after import: its one dict of defaults (the
\* object the name DEFAULT_STRING_PARAMS is bound to) and no string built
NoStrings == [DEFAULT_STRING_PARAMS |-> DEFAULT_STRING_PARAMS, models |-> <<>>]

\* the frame of an integrate call of one of the two solvers that share a
\* Model: own is int(duration / self.dt) of this call, tlen is len(self.t),
\* reserved is self.storage.Nt, bound is the range of the loop, i its
\* variable and stored is self.storage.i
NoFrame ==
    [pc |-> "idle", own |-> 0, tlen |-> 0, reserved |-> 0, bound |-> 0, i |-> 0,
     stored |-> 0]

\* the shared Model has no attribute Nt (-1) and neither solver has started
NoShared == [Nt |-> -1, eng |-> <<NoFrame, NoFrame>>]

\* the undamped string of MaxN nodes and h = 1 whose evaluators are called
EvaluatedString(nl) ==
    FD_string_model(MaxN, R(MaxN + 1), One, One, One, R(4 * (MaxN + 1)), One,
                    Zero, Zero, nl)

\* the coordinate vectors handed to the evaluators: the first node displaced
\* by 3/4, the last by 4/3 (the roots of the GE case are then rational)
EvalQs ==
    <<[i \in 1..MaxN |-> IF i = 1 THEN <<3, 4>> ELSE Zero],
      [i \in 1..MaxN |-> IF i = MaxN THEN <<4, 3>> ELSE Zero]>>

\* nothing returned yet for a vector
NoReturn == [done |-> FALSE, E |-> Zero, F |-> VZero(MaxN)]

\* no string built for evaluation yet; self.dxq = np.zeros(self.N + 1) once
\* it is (line 67)
NoEvaluations ==
    [built |-> FALSE, phys |-> EvaluatedString("lin"),
     dxq |-> [i \in 1..(MaxN + 1) |-> Zero],
     Enl |-> [k \in 1..Len(EvalQs) |-> NoReturn],
     Fnl |-> [k \in 1..Len(EvalQs) |-> NoReturn],
     EandFnl |-> [k \in 1..Len(EvalQs) |->
                    [done |-> FALSE, after_other |-> FALSE, E |-> Zero, F |-> VZero(MaxN)]]]

\* run_convergence_new.py before its first loop: no string built (N = 0), no
\* q_idx set (-1, the default of the storage), nothing stored (node -1)
NoSweep ==
    [pc |-> "sweep", mode |-> 1, A0 |-> 1, sr |-> 1, lambda0 |-> 1,
     N |-> 0, q_idx |-> -1, node |-> -1, error |-> "none"]

Init ==
    /\ model = NoModel
    /\ solver = NoSolver
    /\ run = NoRun
    /\ storage = NoStorage
    /\ last = NoCall
    /\ hist = NoHist
    /\ string_module = NoStrings
    /\ shared = NoShared
    /\ fd_string = NoEvaluations
    /\ sweep = NoSweep

\* ------------------------------------------------------------ SAVSolver.py
\* time_step of SAVSolver.py (lines 224-259).  rv is r^n seen as N numbers:
\* r starts as a number and line 258 divides by the array J0, so that from
\* the first step on r is an array.

\* lines 257-259: the update of r and the two values returned
legacy_time_step_rnext(m, qlast, rv, pn, qn, eps, gn, Gn, Rmidn, A0, RHSn, calls, qnext) ==
    LET d == Dot(gn, VSub(qnext, qlast))
    IN [ret |-> <<qnext, [i \in 1..m.N |-> RAdd(rv[i], RDiv(d, RMul(Two, m.J0)))]>>,
        qn |-> qn, pn |-> pn, epsilon |-> eps,
        gn |-> gn, Gn |-> Gn, Rmidn |-> Rmidn, A0_inv_n |-> A0, RHSn |-> RHSn,
        rmid_calls |-> calls]

\* lines 250-255
legacy_time_step_qnext(s, m, qlast, qnow, rv, unow, pn, qn, eps, gn, Gn, Rmidn, A0, calls) ==
    LET RHSn == VAdd(VSub(VAdd(B_op(s, m, qnow), C_op(s, m, qlast, gn, Rmidn)),
                          VMul(gn, rv)),
                     MatVec(Gn, unow))
    IN legacy_time_step_rnext(m, qlast, rv, pn, qn, eps, gn, Gn, Rmidn, A0, RHSn, calls,
                              solve(s, m, gn, A0, RHSn))

\* lines 243-248
legacy_time_step_Rmid(s, m, qlast, qnow, rv, unow, ConstantRmid, pn, qn, eps, gn) ==
    LET Rmidn == IF ConstantRmid THEN s.Rmidn ELSE BcN(Rmid(m, qnow), m.N)
    IN legacy_time_step_qnext(s, m, qlast, qnow, rv, unow, pn, qn, eps, gn, G(m, qnow),
                              Rmidn,
                              IF ConstantRmid THEN s.A0_inv_n ELSE A0_inv(s, m, Rmidn),
                              IF ConstantRmid THEN 0 ELSE 1)

\* g_mod(q, p, r) of SAVSolver.py with an array r: lamba0 is 0 (line 21)
legacy_drift(s, m, q, rv) ==
    [i \in 1..m.N |-> RSub(rv[i], RSqrt(RAdd(RMul(Two, Enl(m, q)), s.C0)))]

legacy_g_mod(s, m, q, p, rv) ==
    [i \in 1..m.N |->
        RMul(RMul(RMul(RNeg(s.lambda0), legacy_drift(s, m, q, rv)[i]), m.M),
             SignOverAbsEps(p[i]))]

\* lines 239-241: line 241 calls g_mod(pn, qn, rn), the momentum where g_mod
\* expects q and the midpoint where it expects p
legacy_time_step(s, m, qlast, qnow, rv, unow, ConstantRmid) ==
    LET pn == VScale(s.M_J0dt, VSub(qnow, qlast))
        qn == VScale(Half, VAdd(qlast, qnow))
    IN legacy_time_step_Rmid(s, m, qlast, qnow, rv, unow, ConstantRmid, pn, qn,
                             legacy_drift(s, m, pn, rv),
                             VAdd(g(s, m, qnow), legacy_g_mod(s, m, pn, qn, rv)))

\* Ek_tilde of SAVSolver.py: the class body defines it twice, and the second
\* definition (lines 103-113), 0.5 p.(p / M), is the one the class keeps
legacy_Ek_tilde(s, m, p) == RMul(Half, Dot(p, VScale(RInv(m.M), p)))

\* ------------------------------------------------------------ construction
EmptySolver(impl, m, sr, lam) ==
    [state |-> "none", impl |-> impl, sr |-> sr, dt |-> RInv(R(sr)),
     dt2 |-> RMul(RInv(R(sr)), RInv(R(sr))), C0 |-> Zero, lambda0 |-> lam,
     M_J0dt |-> RDiv(m.M, RMul(RInv(R(sr)), m.J0)),
     Gn |-> VZero(m.N), Rmidn |-> VZero(m.N), A0_inv_n |-> VZero(m.N),
     gn |-> VZero(m.N), RHSn |-> VZero(m.N), epsilon |-> Zero, error |-> NoError]

\* a defective constructor that never calls check_sizes
SAVSolver_init_unchecked(mo, sr, lam) ==
    [solver |-> [EmptySolver("sav_solver", mo.phys, sr, R(lam)) EXCEPT
                   !.state = IF init_quantities(mo.sh).kind = "none" THEN "ok" ELSE "failed",
                   !.error = init_quantities(mo.sh)],
     validated |-> FALSE,
     extra |-> {}]

\* SAVSolver.__init__ of sav_solver.py: the attributes, M_J0dt (line 36), then
\* check_sizes (line 39); an exception leaves the caller without a solver
SAVSolver_init(mo, sr, lam) ==
    LET m == mo.phys
        e0 == init_quantities(mo.sh)
        e1 == IF e0.kind # "none" THEN e0 ELSE check_sizes(mo.sh, m.N, m.Nu)
    IN [solver |-> [EmptySolver("sav_solver", m, sr, R(lam)) EXCEPT
                      !.state = IF e1.kind = "none" THEN "ok" ELSE "failed",
                      \* line 88 leaves G(u) in Gn
                      !.Gn = IF e1.kind = "none" THEN G(m, VZero(m.N)) ELSE @,
                      !.error = e1],
        validated |-> e0.kind = "none" /\ e1.kind = "none",
        extra |-> {}]

\* SAVSolver.__init__ of SAVSolver.py: Num_eps is set on the model (line 23),
\* and its check_sizes leaves Rmid(x) on the model too (line 54)
legacy_SAVSolver_init(mo, sr) ==
    LET m == mo.phys
        e0 == init_quantities(mo.sh)
        e1 == IF e0.kind # "none" THEN e0 ELSE legacy_check_sizes(mo.sh, m.N, m.Nu)
        upToRmid == /\ e0.kind = "none"
                    /\ mo.sh.J0.sh = <<m.N>>
                    /\ mo.sh.M.sh = <<m.N>>
                    /\ mo.sh.Rmid.st = "ok"
    IN [solver |-> [EmptySolver("SAVSolver", m, sr, Zero) EXCEPT
                      !.state = IF e1.kind = "none" THEN "ok" ELSE "failed",
                      !.Gn = IF e1.kind = "none" THEN G(m, VZero(m.N)) ELSE @,
                      !.error = e1],
        validated |-> e0.kind = "none" /\ e1.kind = "none",
        extra |-> {"Num_eps"} \cup (IF upToRmid THEN {"Rmidn"} ELSE {})]

\* ------------------------------------------------------------ inputs
NLTypes == {"KC", "lin"}
Dampings == {<<0, 0>>, <<1, 1>>}
\* lambda0 of the solver: the controller off, or on
Lambdas == {0, 1}
\* the amplitude of an initial displacement or velocity: rest, or one unit
Amplitudes == {0, 1}
UFuns == {"zero", "late"}
Configs == {DEFAULT_STORAGE_CONFIG, STATE_STORAGE_CONFIG}

\* a storage_config of the caller that asks for the powers and not for the
\* energies
PowerOnlyConfig == [Energy |-> FALSE, Power |-> TRUE, Drift |-> TRUE, SAV |-> TRUE]

\* the storage configurations explored with each kind of run: the default
\* with every run, STATE_STORAGE_CONFIG with the silent runs, the caller's
\* with the silent runs that recompute Rmid
StorageConfigs(cr, uf) ==
    IF uf = "zero"
      THEN (IF cr THEN Configs ELSE Configs \cup {PowerOnlyConfig})
      ELSE {DEFAULT_STORAGE_CONFIG}

\* the strings built: h = 1, rhol = 1, T = 1, E = 1, I = 1 and a section A
\* that makes 2 * EnlKCConst = 1, so that the square roots of the
\* Kirchhoff-Carrier energy are rational
String(N, d, nl) ==
    FD_string_model(N, R(N + 1), One, One, One, R(4 * (N + 1)), One, R(d[1]), R(d[2]), nl)

\* a Model object: the attributes of the string, what its members answer to
\* the validator, and the attributes other code has set on it since
ModelObject(phys, sh) ==
    [exists |-> TRUE, phys |-> phys, sh |-> sh, Nt |-> -1, extra |-> {}]

\* a model with the arrays J0, M and Rmid(q) of shape (N,)
VectorShapes(N, Nu) ==
    [FDShapes(N, Nu) EXCEPT !.J0 = Has(<<N>>), !.M = Has(<<N>>), !.Rmid = Has(<<N>>)]

\* models that break the contract in one member
Faults(N, Nu) ==
    ({"J0", "M"} \X {Has(<<1>>), Has(<<N + 1>>), Missing})
    \cup ({"Rmid"} \X {Has(<<1>>), Has(<<N + 1>>), Raises, Missing})
    \cup ({"K_op", "Rsv_op", "Fnl", "EandFnl"}
            \X {Has(<<>>), Has(<<1>>), Has(<<N + 1>>), Raises, Missing})
    \cup ({"G"} \X {Has(<<N>>), Has(<<N, Nu + 1>>), Raises, Missing})
    \cup ({"Enl"} \X {Raises, Missing})
    \cup ({"setting"} \X {Missing})

\* u_func(t) of the caller, one input (Nu = 1): silent, or switched on after
\* half a second
u_func(kind, t) ==
    IF kind = "late" /\ RLt(Half, t) THEN <<One>> ELSE <<Zero>>

\* initial shapes: a displacement at the first node, a velocity at the last
Q0s(N) == {[i \in 1..N |-> IF i = 1 THEN R(a) ELSE Zero] : a \in Amplitudes}
U0s(N) == {[i \in 1..N |-> IF i = N THEN R(a) ELSE Zero] : a \in Amplitudes}

\* momenta handed to the accounting methods: rest, or one node moving
Momenta(N) == Q0s(N) \cup U0s(N)

\* input matrices of shape N x Nu: G of the string with every input at its
\* middle node, or every input at every node
InputMatrices(N, Nu) ==
    {[i \in 1..N |-> [j \in 1..Nu |-> IF i = (N \div 2) + 1 THEN One ELSE Zero]],
     [i \in 1..N |-> [j \in 1..Nu |-> One]]}

\* input samples of length Nu: every input on, or the first alone
InputVectors(Nu) ==
    {[j \in 1..Nu |-> One], [j \in 1..Nu |-> IF j = 1 THEN One ELSE Zero]}

\* ------------------------------------------------------------ actions
\* FD_string_model(sr, **kwargs)
NewString ==
    /\ ~model.exists
    /\ \E d \in Dampings, nl \in NLTypes :
          model' = ModelObject(String(MaxN, d, nl), FDShapes(MaxN, 1))
    /\ UNCHANGED <<solver, run, storage, last, hist, string_module, shared, fd_string, sweep>>

\* another implementation of the Model contract: arrays for J0, M and Rmid,
\* or one member that breaks the contract
NewContractModel ==
    /\ ~model.exists
    /\ \/ \E nl \in NLTypes :
             model' = ModelObject(String(MaxN, <<0, 0>>, nl), VectorShapes(MaxN, 1))
       \/ \E N \in 1..MaxN : \E f \in Faults(N, 1) :
             model' = ModelObject(String(N, <<0, 0>>, "lin"),
                                  [FDShapes(N, 1) EXCEPT ![f[1]] = f[2]])
    /\ UNCHANGED <<solver, run, storage, last, hist, string_module, shared, fd_string, sweep>>

\* SAVSolver(model, sr, lambda0), sav_solver.py
NewSolver ==
    /\ model.exists
    /\ solver.state = "none"
    /\ \E sr \in 1..MaxSr, lam \in Lambdas :
          LET c == SAVSolver_init(model, sr, lam)
          IN /\ solver' = c.solver
             /\ hist' = [hist EXCEPT !.validated = c.validated]
    /\ UNCHANGED <<model, run, storage, last, string_module, shared, fd_string, sweep>>

\* SAVSolver(model, sr), SAVSolver.py
NewLegacySolver ==
    /\ model.exists
    /\ solver.state = "none"
    /\ \E sr \in 1..MaxSr :
          LET c == legacy_SAVSolver_init(model, sr)
          IN /\ solver' = c.solver
             /\ model' = [model EXCEPT !.extra = @ \cup c.extra]
             /\ hist' = [hist EXCEPT !.validated = c.validated]
    /\ UNCHANGED <<run, storage, last, string_module, shared, fd_string, sweep>>

\* a defective start: q0 -+ u0 dt, a whole step apart on each side
Started_whole_step(q0, u0, uf, Nt, cr, rshape) ==
    [pc |-> "loop", i |-> 0, Nt |-> Nt,
     qlast |-> VSub(q0, VScale(solver.dt, u0)),
     qnow |-> VAdd(q0, VScale(RMul(solver.dt, Two), u0)),
     rnow |-> RSqrt(RAdd(RMul(Two, Enl(model.phys, q0)), solver.C0)),
     rshape |-> rshape, ConstantRmid |-> cr, ufun |-> uf, q0 |-> q0, u0 |-> u0]

\* the frame of integrate when it reaches its loop
Started(q0, u0, uf, Nt, cr, rshape) ==
    [pc |-> "loop", i |-> 0, Nt |-> Nt,
     qlast |-> VSub(q0, VScale(RMul(solver.dt, Half), u0)),
     qnow |-> VAdd(q0, VScale(RMul(solver.dt, Half), u0)),
     rnow |-> RSqrt(RAdd(RMul(Two, Enl(model.phys, q0)), solver.C0)),
     rshape |-> rshape, ConstantRmid |-> cr, ufun |-> uf, q0 |-> q0, u0 |-> u0]

\* with ConstantRmid, Rmid(q0) and A0_inv of it are computed before the loop
Prepared(cr, q0) ==
    LET Rm == BcN(Rmid(model.phys, q0), model.phys.N)
    IN [solver |-> IF cr THEN [solver EXCEPT !.Rmidn = Rm,
                                              !.A0_inv_n = A0_inv(solver, model.phys, Rm)]
                         ELSE solver,
        hist |-> [hist EXCEPT !.rmid_calls = IF cr THEN 1 ELSE 0,
                              !.a0_calls = IF cr THEN 1 ELSE 0,
                              !.steps = 0,
                              !.store_calls = <<>>,
                              !.Rmid0 = IF cr THEN Rm ELSE <<>>,
                              !.A00 = IF cr THEN A0_inv(solver, model.phys, Rm) ELSE <<>>]]

\* integrate(q0, u0, u_func, duration, ConstantRmid, storage_config) of
\* sav_solver.py, lines 395-411, up to the loop; the runs explored are those
\* of the finite-difference string
Integrate ==
    /\ solver.state = "ok"
    /\ solver.impl = "sav_solver"
    /\ model.sh = FDShapes(model.phys.N, model.phys.Nu)
    /\ run.pc = "idle"
    /\ \E halves \in 0..MaxHalves, cr \in BOOLEAN, uf \in UFuns,
          q0 \in Q0s(model.phys.N), u0 \in U0s(model.phys.N) :
       \E cfg \in StorageConfigs(cr, uf) :
          \* int(duration / dt) for a duration of halves / 2 seconds
          LET Nt == (halves * solver.sr) \div 2
          IN /\ model' = [model EXCEPT !.Nt = Nt, !.extra = @ \cup {"Nt"}]
             /\ storage' = reserve(cfg, Nt, model.phys.N)
             /\ run' = Started(q0, u0, uf, Nt, cr, <<>>)
             /\ solver' = Prepared(cr, q0).solver
             /\ hist' = Prepared(cr, q0).hist
    /\ UNCHANGED <<last, string_module, shared, fd_string, sweep>>

\* integrate(q0, u0, u_func, duration, plot, ConstantRmid) of SAVSolver.py,
\* lines 274-291 (plot = None)
LegacyIntegrate ==
    /\ solver.state = "ok"
    /\ solver.impl = "SAVSolver"
    /\ run.pc = "idle"
    /\ \E halves \in 0..MaxHalves, cr \in BOOLEAN, uf \in UFuns,
          q0 \in Q0s(model.phys.N), u0 \in U0s(model.phys.N) :
          LET Nt == (halves * solver.sr) \div 2
          IN /\ model' = [model EXCEPT !.Nt = Nt, !.extra = @ \cup {"Nt"}]
             /\ run' = Started(q0, u0, uf, Nt, cr, <<>>)
             /\ solver' = Prepared(cr, q0).solver
             /\ hist' = Prepared(cr, q0).hist
    /\ UNCHANGED <<storage, last, string_module, shared, fd_string, sweep>>

\* a defective loop that carries q_next on but never moves q_curr to q_prev
Passed_stale_qlast(ts, u, t, ret, eps, rnext, rshape, stored) ==
    /\ solver' = [solver EXCEPT !.gn = ts.gn, !.epsilon = eps, !.Gn = ts.Gn,
                                !.Rmidn = ts.Rmidn, !.A0_inv_n = ts.A0_inv_n,
                                !.RHSn = ts.RHSn]
    /\ last' = [called |-> TRUE, qlast |-> run.qlast, qnow |-> run.qnow,
                rn |-> run.rnow, rshape |-> run.rshape, unow |-> u,
                ConstantRmid |-> run.ConstantRmid, t |-> t, ret |-> ret]
    /\ run' = [run EXCEPT !.qnow = ret[1], !.rnow = rnext,
                          !.rshape = rshape, !.i = @ + 1]
    /\ hist' = [hist EXCEPT !.rmid_calls = @ + ts.rmid_calls,
                            !.a0_calls = @ + ts.rmid_calls,
                            !.steps = @ + 1,
                            !.stepped_unvalidated = @ \/ ~hist.validated,
                            !.store_calls = @ \o stored,
                            !.first = IF last.called THEN @
                                      ELSE [args |-> <<run.qlast, run.qnow, run.rnow, u,
                                                       run.ConstantRmid>>,
                                            ret |-> ret]]

\* what one pass of a loop leaves: the attributes on the solver, the call
\* on record, the state rotated
Passed(ts, u, t, ret, eps, rnext, rshape, stored) ==
    /\ solver' = [solver EXCEPT !.gn = ts.gn, !.epsilon = eps, !.Gn = ts.Gn,
                                !.Rmidn = ts.Rmidn, !.A0_inv_n = ts.A0_inv_n,
                                !.RHSn = ts.RHSn]
    /\ last' = [called |-> TRUE, qlast |-> run.qlast, qnow |-> run.qnow,
                rn |-> run.rnow, rshape |-> run.rshape, unow |-> u,
                ConstantRmid |-> run.ConstantRmid, t |-> t, ret |-> ret]
    /\ run' = [run EXCEPT !.qlast = run.qnow, !.qnow = ret[1], !.rnow = rnext,
                          !.rshape = rshape, !.i = @ + 1]
    /\ hist' = [hist EXCEPT !.rmid_calls = @ + ts.rmid_calls,
                            !.a0_calls = @ + ts.rmid_calls,
                            !.steps = @ + 1,
                            !.stepped_unvalidated = @ \/ ~hist.validated,
                            !.store_calls = @ \o stored,
                            !.first = IF last.called THEN @
                                      ELSE [args |-> <<run.qlast, run.qnow, run.rnow, u,
                                                       run.ConstantRmid>>,
                                            ret |-> ret]]

\* lines 415-424 of sav_solver.py with the value of time_step in hand
StepWith(ts, u, t) ==
    /\ Passed(ts, u, t, <<ts.qnext, ts.rnext, ts.qn, ts.pn, ts.epsilon>>, ts.epsilon,
              ts.rnext, <<>>, <<run.i>>)
    /\ storage' = store(storage, solver', model.phys, ts.qn, ts.pn, run.rnow, ts.epsilon,
                        run.i, ts.Rmidn, ts.Gn, u)

\* a defective loop that samples the input on the grid, at i dt
Step_on_the_grid ==
    /\ run.pc = "loop"
    /\ solver.impl = "sav_solver"
    /\ run.i < run.Nt
    /\ StepWith(time_step(solver, model.phys, run.qlast, run.qnow, run.rnow,
                          u_func(run.ufun, RMul(R(run.i), solver.dt)),
                          run.ConstantRmid),
                u_func(run.ufun, RMul(R(run.i), solver.dt)),
                RMul(R(run.i), solver.dt))
    /\ UNCHANGED <<model, string_module, shared, fd_string, sweep>>

\* one pass of the loop of sav_solver.py, lines 414-424: time_step, store,
\* the rotation of the state
Step ==
    /\ run.pc = "loop"
    /\ solver.impl = "sav_solver"
    /\ run.i < run.Nt
    /\ StepWith(time_step(solver, model.phys, run.qlast, run.qnow, run.rnow,
                          u_func(run.ufun, RMul(RAdd(R(run.i), Half), solver.dt)),
                          run.ConstantRmid),
                u_func(run.ufun, RMul(RAdd(R(run.i), Half), solver.dt)),
                RMul(RAdd(R(run.i), Half), solver.dt))
    /\ UNCHANGED <<model, string_module, shared, fd_string, sweep>>

\* one pass of the loop of SAVSolver.py, lines 292-295 (plot = None)
LegacyStep ==
    /\ run.pc = "loop"
    /\ solver.impl = "SAVSolver"
    /\ run.i < run.Nt
    /\ LET u == u_func(run.ufun, RMul(R(run.i), solver.dt))
           rv == IF run.rshape = <<>> THEN BcN(run.rnow, model.phys.N) ELSE run.rnow
       IN \E ts \in {legacy_time_step(solver, model.phys, run.qlast, run.qnow, rv, u,
                                      run.ConstantRmid)} :
             Passed(ts, u, RMul(R(run.i), solver.dt), ts.ret,
                    IF run.rshape = <<>> THEN ts.epsilon[1] ELSE ts.epsilon,
                    ts.ret[2], <<model.phys.N>>, <<>>)
    /\ UNCHANGED <<model, storage, string_module, shared, fd_string, sweep>>

\* what a call of time_step made by the owner of the solver leaves: the
\* attributes on the solver and the call on record
Called(ts, args) ==
    /\ solver' = [solver EXCEPT !.gn = ts.gn, !.epsilon = ts.epsilon, !.Gn = ts.Gn,
                                !.Rmidn = ts.Rmidn, !.A0_inv_n = ts.A0_inv_n,
                                !.RHSn = ts.RHSn]
    /\ last' = [called |-> TRUE, qlast |-> args[1], qnow |-> args[2], rn |-> args[3],
                rshape |-> <<>>, unow |-> args[4], ConstantRmid |-> args[5], t |-> Zero,
                ret |-> <<ts.qnext, ts.rnext, ts.qn, ts.pn, ts.epsilon>>]
    /\ run' = [run EXCEPT !.pc = "calls"]
    /\ hist' = [hist EXCEPT !.stepped_unvalidated = @ \/ ~hist.validated,
                            !.first = IF last.called THEN @
                                      ELSE [args |-> args,
                                            ret |-> <<ts.qnext, ts.rnext, ts.qn, ts.pn,
                                                      ts.epsilon>>]]

\* solver.time_step(qlast, qnow, rn, unow, ConstantRmid) called by the owner of
\* the solver outside integrate, on the displaced string at rest:
\* qlast = qnow = q0, rn = sqrt(2 Enl(q0) + C0), no input
TimeStepCall ==
    /\ solver.state = "ok"
    /\ solver.impl = "sav_solver"
    /\ model.sh = FDShapes(model.phys.N, model.phys.Nu)
    /\ run.pc \in {"idle", "calls"}
    /\ \E q0 \in Q0s(model.phys.N) \ {VZero(model.phys.N)}, cr \in BOOLEAN :
          Called(time_step(solver, model.phys, q0, q0,
                           RSqrt(RAdd(RMul(Two, Enl(model.phys, q0)), solver.C0)),
                           <<Zero>>, cr),
                 <<q0, q0, RSqrt(RAdd(RMul(Two, Enl(model.phys, q0)), solver.C0)),
                   <<Zero>>, cr>>)
    /\ UNCHANGED <<model, storage, string_module, shared, fd_string, sweep>>

\* solver.Ek_tilde(p) called by the owner of the solver
CallEkTilde ==
    /\ solver.state = "ok"
    /\ run.pc = "idle"
    /\ \E p \in Momenta(model.phys.N) :
          hist' = [hist EXCEPT !.call =
                     [method |-> "Ek_tilde", args |-> <<p>>,
                      ret |-> <<IF solver.impl = "sav_solver"
                                  THEN Ek_tilde(solver, model.phys, p)
                                  ELSE legacy_Ek_tilde(solver, model.phys, p)>>]]
    /\ run' = [run EXCEPT !.pc = "called"]
    /\ UNCHANGED <<model, solver, storage, last, string_module, shared, fd_string, sweep>>

\* solver.P_ext(pnow, pnext, G, u) of sav_solver.py called by the owner of the
\* solver, for a system of Nu inputs
CallPExt ==
    /\ solver.state = "ok"
    /\ solver.impl = "sav_solver"
    /\ run.pc = "idle"
    /\ \E Nu \in 1..MaxNu :
          \E pnext \in Momenta(model.phys.N), Gm \in InputMatrices(model.phys.N, Nu),
             u \in InputVectors(Nu) :
             hist' = [hist EXCEPT !.call =
                        [method |-> "P_ext",
                         args |-> <<VZero(model.phys.N), pnext, Gm, u>>,
                         ret |-> P_ext(solver, model.phys, VZero(model.phys.N), pnext,
                                       Gm, u)]]
    /\ run' = [run EXCEPT !.pc = "called"]
    /\ UNCHANGED <<model, solver, storage, last, string_module, shared, fd_string, sweep>>

\* the loop is over.  sav_solver.py line 426 calls
\* self.plotter.update_plots(self.storage, block=True), which reads data.i
\* (plotter.py line 117) whatever the plotter configuration, then integrate
\* returns; SAVSolver.py line 316 has no storage to read
Finish ==
    /\ run.pc = "loop"
    /\ run.i >= run.Nt
    /\ run' = [run EXCEPT !.pc = IF solver.impl = "sav_solver" /\ storage.i = -1
                                   THEN "AttributeError" ELSE "done"]
    /\ UNCHANGED <<model, solver, storage, last, hist, string_module, shared, fd_string, sweep>>

Next ==
    \/ NewString
    \/ NewContractModel
    \/ NewSolver
    \/ NewLegacySolver
    \/ Integrate
    \/ LegacyIntegrate
    \/ Step
    \/ LegacyStep
    \/ Finish
    \/ TimeStepCall
    \/ CallEkTilde
    \/ CallPExt

Spec == Init /\ [][Next]_vars

\* ------------------------------------------------------------ string parameters
\* the keys of DEFAULT_STRING_PARAMS kept
ParamKeys == {"NL_type", "T"}
\* run_convergence_new.py line 21, the first two modes and the default one
modes == {"Linear", "KC", "GE4"}
Tensions == {60, 80}

\* keyword arguments **kwargs: the keys given and their values (a key that
\* is not given carries the value of the literal, which update never reads)
Kwargs ==
    {kw \in [given : SUBSET ParamKeys, NL_type : modes, T : Tensions] :
        /\ ("T" \notin kw.given => kw.T = DEFAULT_STRING_PARAMS.T)
        /\ ("NL_type" \notin kw.given => kw.NL_type = DEFAULT_STRING_PARAMS.NL_type)}

\* dict.update(**kwargs): the dict after the call
update(d, kw) ==
    [NL_type |-> IF "NL_type" \in kw.given THEN kw.NL_type ELSE d.NL_type,
     T |-> IF "T" \in kw.given THEN kw.T ELSE d.T]

\* FD_string_model.__init__(sr, **kwargs), fd_string_model.py lines 51-57, run
\* when the dict of the module holds d.  Line 54 binds self.params to the dict
\* of the module, no copy is made; line 55 updates that dict in place; line 56
\* copies its items to the attributes of the instance.
Constructed(d, kw) ==
    [DEFAULT_STRING_PARAMS |-> update(d, kw),
     models |-> Append(string_module.models,
                       [kwargs |-> kw, attrs |-> update(d, kw)])]

\* model.setting() of the k-th string built, fd_string_model.py lines 105-106,
\* its items **self.params: self.params is the dict of the module
setting(k) == string_module.DEFAULT_STRING_PARAMS

\* FD_string_model(sr, **kwargs) with some keyword overrides, or none
NewStringWith ==
    /\ Len(string_module.models) < MaxModels
    /\ \E kw \in Kwargs :
          string_module' = Constructed(string_module.DEFAULT_STRING_PARAMS, kw)
    /\ UNCHANGED <<engine_vars, shared, fd_string, sweep>>

\* one pass of the sweep of run_convergence_new.py, lines 62-64:
\* string_params is the dict of the module (line 20 binds the name, no copy),
\* line 62 sets its NL_type, line 64 passes every item of it as a keyword
SweepPass ==
    /\ Len(string_module.models) < MaxModels
    /\ \E mode \in modes :
          LET string_params == [string_module.DEFAULT_STRING_PARAMS
                                   EXCEPT !.NL_type = mode]
          IN string_module' =
                Constructed(string_params,
                            [given |-> ParamKeys, NL_type |-> string_params.NL_type,
                             T |-> string_params.T])
    /\ UNCHANGED <<engine_vars, shared, fd_string, sweep>>

StringsNext ==
    \/ NewStringWith
    \/ SweepPass

StringsSpec == Init /\ [][StringsNext]_vars

\* ------------------------------------------------------------ two solvers, one Model
\* Two SAVSolver objects of sav_solver.py hold the same Model, whose operators
\* are pure, and an integrate call runs on each; the statements of the two
\* calls interleave.  Only what decides the number of steps is kept.
Engines == {1, 2}

\* the frame of the integrate call of solver e becomes ch
Moved(e, ch) == [shared EXCEPT !.eng[e] = ch]

\* sav_solver.py line 396: self.model.Nt = int(duration / self.dt), for a
\* duration of halves / 2 seconds and a solver of sample rate sr
WriteNt ==
    \E e \in Engines, halves \in 0..MaxHalves, sr \in 1..MaxSr :
        /\ shared.eng[e].pc = "idle"
        /\ shared' = [Moved(e, [shared.eng[e] EXCEPT !.pc = "l397",
                                                      !.own = (halves * sr) \div 2])
                         EXCEPT !.Nt = (halves * sr) \div 2]
        /\ UNCHANGED <<engine_vars, string_module, fd_string, sweep>>

\* lines 397-412: self.t = np.arange(self.model.Nt) * self.dt, the storage
\* reserved for len(self.t) steps (results_storage.py line 40), the state
\* initialised
MakeTimeVector ==
    \E e \in Engines :
        /\ shared.eng[e].pc = "l397"
        /\ shared' = Moved(e, [shared.eng[e] EXCEPT !.pc = "l415",
                                                    !.tlen = shared.Nt,
                                                    !.reserved = shared.Nt])
        /\ UNCHANGED <<engine_vars, string_module, fd_string, sweep>>

\* line 415: range(self.model.Nt) is evaluated once, on entering the loop
EnterLoop ==
    \E e \in Engines :
        /\ shared.eng[e].pc = "l415"
        /\ shared' = Moved(e, [shared.eng[e] EXCEPT !.pc = "loop", !.bound = shared.Nt,
                                                    !.i = 0])
        /\ UNCHANGED <<engine_vars, string_module, fd_string, sweep>>

\* lines 416-425, one pass: time_step, then store(i = i), which writes cell i
\* of arrays of length reserved (IndexError beyond them) and sets storage.i
LoopPass ==
    \E e \in Engines :
        /\ shared.eng[e].pc = "loop"
        /\ shared.eng[e].i < shared.eng[e].bound
        /\ shared' = Moved(e, IF shared.eng[e].i >= shared.eng[e].reserved
                                THEN [shared.eng[e] EXCEPT !.pc = "IndexError"]
                                ELSE [shared.eng[e] EXCEPT !.i = @ + 1,
                                                           !.stored = shared.eng[e].i + 1])
        /\ UNCHANGED <<engine_vars, string_module, fd_string, sweep>>

\* the range is exhausted: integrate returns
LoopEnd ==
    \E e \in Engines :
        /\ shared.eng[e].pc = "loop"
        /\ shared.eng[e].i >= shared.eng[e].bound
        /\ shared' = Moved(e, [shared.eng[e] EXCEPT !.pc = "done"])
        /\ UNCHANGED <<engine_vars, string_module, fd_string, sweep>>

SharedNext ==
    \/ WriteNt
    \/ MakeTimeVector
    \/ EnterLoop
    \/ LoopPass
    \/ LoopEnd

SharedSpec == Init /\ [][SharedNext]_vars

\* ------------------------------------------------------------ properties
\* the run is one of sav_solver.py's integrate and has stored k steps or more
Stored(k) == solver.impl = "sav_solver" /\ storage.reserved /\ storage.i >= k

\* no dissipation: Rmid and Rsv_op are zero
Undamped == model.phys.eta_0 = Zero /\ model.phys.eta_1 = Zero

\* C1: for every step i >= 1 that integrate records, the power balance
\* Ptot[i] = Pstored[i] + Pdiss[i] + Pext[i] is zero, whatever the model,
\* lambda0, the step size and the input function.
C1_PowerBalanceZero ==
    (Stored(2) /\ storage.Power) =>
        \A k \in 2..storage.i : Ok(storage.Ptot[k]) => storage.Ptot[k] = Zero

\* C2: with lambda0 = 0, no input and no dissipation, the pseudo-energy
\* Ek_tilde(p) + Ep_lin(q_mid) + r^2 / 2 of every step of a run is the one of
\* step 0.
C2_EnergyConstant ==
    (Stored(1) /\ storage.Energy /\ solver.lambda0 = Zero /\ run.ufun = "zero" /\ Undamped)
        => \A k \in 1..storage.i :
              (Ok(storage.Etot[1]) /\ Ok(storage.Etot[k]))
                  => storage.Etot[k] = storage.Etot[1]

\* a run of two stored steps under the conditions of C2, on the nonlinear
\* string away from rest, its energies in range
C2_Witness ==
    /\ Stored(2) /\ storage.Energy /\ solver.lambda0 = Zero /\ run.ufun = "zero" /\ Undamped
    /\ model.phys.NL_type = "KC"
    /\ Ok(storage.Etot[2])
    /\ storage.Etot[1] # Zero
    /\ storage.q[2] # storage.q[1]

\* row i of (diag(1 / A0_inv) + g g^T / 4) x
ImplicitRow(A0, gv, x, i) ==
    RAdd(RMul(RInv(A0[i]), x[i]), RMul(Quarter, RMul(gv[i], Dot(gv, x))))

\* C3: the q_next that time_step returns solves
\* (diag(1 / A0_inv) + g g^T / 4) (q_next / J0) = RHS.
C3_ShermanMorrison ==
    last.called =>
        LET x == VScale(RInv(model.phys.J0), last.ret[1])
        IN \A i \in 1..model.phys.N :
              LET row == ImplicitRow(solver.A0_inv_n, solver.gn, x, i)
              IN (VOk(x) /\ Ok(row) /\ Ok(solver.RHSn[i])) => row = solver.RHSn[i]

\* a step of sav_solver.py with g # 0 and a right-hand side # 0, in range
C3_Witness ==
    /\ last.called
    /\ solver.impl = "sav_solver"
    /\ VOk(last.ret[1])
    /\ \E i \in 1..model.phys.N : Ok(solver.gn[i]) /\ solver.gn[i] # Zero
    /\ \E i \in 1..model.phys.N : Ok(solver.RHSn[i]) /\ solver.RHSn[i] # Zero
    /\ \A i \in 1..model.phys.N :
          Ok(ImplicitRow(solver.A0_inv_n, solver.gn,
                         VScale(RInv(model.phys.J0), last.ret[1]), i))

\* C4: with ConstantRmid = True a run evaluates Rmid and A0_inv once, before
\* its first step, and no step changes the cached values.
C4_RmidOnce ==
    (run.pc # "idle" /\ run.ConstantRmid) =>
        /\ hist.rmid_calls = 1
        /\ hist.a0_calls = 1
        /\ solver.Rmidn = hist.Rmid0
        /\ solver.A0_inv_n = hist.A00

\* two steps of a damped string done under ConstantRmid = True
C4_Witness ==
    /\ run.ConstantRmid
    /\ solver.impl = "sav_solver"
    /\ hist.steps >= 2
    /\ model.phys.eta_0 # Zero
    /\ VOk(solver.A0_inv_n)

\* the members whose value must be an N-vector
VectorMembers == {"J0", "M", "Rmid", "K_op", "Rsv_op", "Fnl", "EandFnl"}

\* C5: a solver is constructed only for a model whose operations and vectors
\* all have the expected shape, N elements (N x Nu for G): a shape that merely
\* broadcasts against an N-vector is refused.
C5_NoBroadcastAccepted ==
    (solver.state = "ok" /\ solver.impl = "sav_solver") =>
        /\ \A mb \in VectorMembers : model.sh[mb] = Has(<<model.phys.N>>)
        /\ model.sh.G = Has(<<model.phys.N, model.phys.Nu>>)

\* the operations the validator invokes
Operations == {"K_op", "Rsv_op", "Rmid", "G", "Enl", "Fnl", "EandFnl"}

\* C6: when an operation of the model raises or is missing, construction
\* aborts with a contract error that names that operation.
C6_FailureNamesOperation ==
    \A op \in Operations :
        (solver.state # "none" /\ model.sh[op].st # "ok"
            /\ model.sh.J0.st = "ok" /\ model.sh.M.st = "ok")
        => (solver.state = "failed" /\ solver.error = ContractError(op))

\* C7: a step or an integrate call happens only on a solver whose constructor
\* ran check_sizes to its end; when validation raises there is no solver and
\* nothing steps.
C7_ValidatedBeforeStepping ==
    /\ (run.pc # "idle" \/ last.called \/ solver.state = "ok") => hist.validated
    /\ ~hist.stepped_unvalidated
    /\ solver.state = "failed" => (run.pc = "idle" /\ ~last.called /\ ~hist.validated)

\* a step taken
C7_Witness == last.called /\ hist.steps >= 1 /\ hist.validated /\ solver.impl = "sav_solver"

\* C8: integrate starts from q_prev = q0 - u0 dt / 2, q_curr = q0 + u0 dt / 2
\* and r = sqrt(2 Enl(q0) + C0); the midpoint of step 0 is q0 and the drift
\* reported for step 0 is 0.
C8_InitialState ==
    /\ (run.pc = "loop" /\ run.i = 0 /\ solver.impl = "sav_solver") =>
          /\ \A i \in 1..model.phys.N :
                /\ RAdd(run.qlast[i], RMul(run.u0[i], RMul(solver.dt, Half))) = run.q0[i]
                /\ RSub(run.qnow[i], RMul(run.u0[i], RMul(solver.dt, Half))) = run.q0[i]
          /\ Ok(run.rnow) =>
                RMul(run.rnow, run.rnow) = RAdd(RMul(Two, Enl(model.phys, run.q0)), solver.C0)
    /\ (run.i = 1 /\ solver.impl = "sav_solver") =>
          /\ last.ret[3] = run.q0
          /\ Ok(last.rn) => last.ret[5] = Zero
          /\ (storage.Drift /\ Ok(last.rn)) => storage.epsilon[1] = Zero

\* step 0 of a run on the nonlinear string, started away from rest with a
\* velocity, its r in range and not zero
C8_Witness ==
    /\ run.i = 1 /\ solver.impl = "sav_solver"
    /\ model.phys.NL_type = "KC"
    /\ run.q0 # VZero(model.phys.N) /\ run.u0 # VZero(model.phys.N)
    /\ Ok(last.rn) /\ last.rn # Zero
    /\ storage.Drift

\* C9: time_step returns five values (q_next, r_next, q_mid, p, epsilon), p
\* and q_mid being those of the state it was called with.
C9_FiveValues ==
    last.called =>
        /\ Len(last.ret) = 5
        /\ last.ret[3] = VScale(Half, VAdd(last.qlast, last.qnow))
        /\ last.ret[4] = VScale(solver.M_J0dt, VSub(last.qnow, last.qlast))

\* C10: the drift of every time_step is r - sqrt(2 Enl(q_mid) + C0), Enl
\* taken at the midpoint (q_prev + q_curr) / 2, at every place that calls the
\* drift controller.
C10_DriftAtMidpoint ==
    (last.called /\ last.rshape = <<>>) =>
        LET qn == VScale(Half, VAdd(last.qlast, last.qnow))
            root == RSqrt(RAdd(RMul(Two, Enl(model.phys, qn)), solver.C0))
        IN (Ok(root) /\ Ok(last.rn) /\ Ok(solver.epsilon))
              => solver.epsilon = RSub(last.rn, root)

\* C11: the update of the auxiliary variable is
\* r_next = r + g . ((q_next - q_prev) / (2 J0)), the division inside the dot
\* product: whatever the shape of J0, the r that a step returns is one number,
\* and r is one number after every step.
C11_RScalar ==
    last.called =>
        /\ run.rshape = <<>>
        /\ last.ret[2] =
              RAdd(last.rn,
                   Dot(solver.gn,
                       VScale(RInv(RMul(Two, model.phys.J0)),
                              VSub(last.ret[1], last.qlast))))

\* the drift that the latest step left on the solver is a number in range
EpsilonFinite ==
    IF last.rshape = <<>> THEN Ok(solver.epsilon) ELSE VOk(solver.epsilon)

\* the latest step redone by the scheme without the drift term, with the
\* coupling vector of the solver (C12 states that it is g alone)
UndrivenStep ==
    LET m == model.phys
        pn == VScale(solver.M_J0dt, VSub(last.qnow, last.qlast))
        qn == VScale(Half, VAdd(last.qlast, last.qnow))
    IN IF solver.impl = "sav_solver"
         THEN LET ts == time_step_Rmid(solver, m, last.qlast, last.qnow, last.rn,
                                       last.unow, last.ConstantRmid, pn, qn, Zero,
                                       solver.gn)
              IN <<ts.qnext, ts.rnext>>
         ELSE legacy_time_step_Rmid(solver, m, last.qlast, last.qnow,
                                    IF last.rshape = <<>> THEN BcN(last.rn, m.N)
                                                          ELSE last.rn,
                                    last.unow, last.ConstantRmid, pn, qn, Zero,
                                    solver.gn).ret

\* C12: with lambda0 = 0 and a finite drift, the coupling vector of a step is
\* J0 Fnl(q_curr) / sqrt(2 Enl(q_curr) + C0 + eps) alone, and q_next and r_next
\* are those of the scheme without the drift term.
C12_DriftOff ==
    (last.called /\ solver.lambda0 = Zero /\ EpsilonFinite) =>
        /\ solver.gn = g(solver, model.phys, last.qnow)
        /\ <<last.ret[1], last.ret[2]>> = SubSeq(UndrivenStep, 1, 2)

\* a step of sav_solver.py with lambda0 = 0 whose drift, momentum and coupling
\* vector are not zero
C12_Witness ==
    /\ last.called /\ solver.impl = "sav_solver" /\ solver.lambda0 = Zero
    /\ Ok(solver.epsilon) /\ solver.epsilon # Zero
    /\ VOk(last.ret[1]) /\ VOk(solver.gn)
    /\ \E i \in 1..model.phys.N : last.ret[4][i] # Zero
    /\ \E i \in 1..model.phys.N : solver.gn[i] # Zero

\* what the latest step returned is in range: q_next, and r_next in its shape
RetFinite ==
    /\ VOk(last.ret[1])
    /\ IF run.rshape = <<>> THEN Ok(last.ret[2]) ELSE VOk(last.ret[2])

\* C15: the denominators of a step are positive: the radicand 2 Enl(q_curr) + C0
\* is not negative, so that with Num_eps added it and its root are positive;
\* |p| is not negative, so that |p| + Num_eps is positive; 2 M + dt Rmid > 0;
\* den = 4 + g.(A0_inv g) >= 4.  A first step from Enl(q0) = 0 or from zero
\* velocity is defined.
C15_PositiveDenominators ==
    last.called =>
        LET m == model.phys
            rad == RAdd(RMul(Two, Enl(m, last.qnow)), solver.C0)
            pn == VScale(solver.M_J0dt, VSub(last.qnow, last.qlast))
            den == RAdd(Four, Dot(solver.gn, VMul(solver.A0_inv_n, solver.gn)))
        IN /\ Ok(rad) => RLe(Zero, rad)
           /\ \A i \in 1..m.N : Ok(pn[i]) => RLe(Zero, RAbs(pn[i]))
           /\ \A i \in 1..m.N :
                 RLt(Zero, RAdd(RMul(Two, m.M), RMul(solver.dt, solver.Rmidn[i])))
           /\ Ok(den) => RLe(Four, den)
           /\ (run.i = 1 /\ (Enl(m, run.q0) = Zero \/ run.u0 = VZero(m.N))) => RetFinite

\* the first step of a run of the nonlinear string from rest, the controller
\* on: Enl = 0 under the root of g, and p = 0 under the controller's division
C15_Witness ==
    /\ last.called /\ run.i = 1 /\ solver.impl = "sav_solver"
    /\ model.phys.NL_type = "KC" /\ solver.lambda0 = One
    /\ run.q0 = VZero(model.phys.N) /\ run.u0 = VZero(model.phys.N)
    /\ Enl(model.phys, last.qnow) = Zero
    /\ RetFinite

\* C18: the engine only reads the model: after a solver is constructed, and
\* through time_step and integrate, the model has the attributes it was built
\* with and no other.
C18_ModelReadOnly ==
    model.exists => (model.Nt = -1 /\ model.extra = {})

\* C20: in a run of integrate, store is called once per step, with the indices
\* 0, 1, ..., Nt - 1 in this order, and after the call for index i the counter
\* of the storage is i + 1.
C20_StoreOncePerStep ==
    (solver.impl = "sav_solver" /\ storage.reserved /\ run.pc \in {"loop", "done"}) =>
        /\ hist.store_calls = [k \in 1..run.i |-> k - 1]
        /\ run.i >= 1 => storage.i = run.i
        /\ run.i <= run.Nt
        /\ run.pc = "done" => run.i = run.Nt

\* a run of two steps or more that has returned
C20_Witness ==
    /\ solver.impl = "sav_solver" /\ storage.reserved /\ run.pc = "done"
    /\ run.Nt >= 2
    /\ Len(hist.store_calls) = run.Nt
    /\ storage.i = run.Nt

\* C13: Ek_tilde(p) is the kinetic pseudo-energy
\* 0.5 p.(p / M - dt^2 / 4 J0 / M K_op(J0 / M p) - dt / (2 M) Rsv_op(p / M)),
\* with its K_op and Rsv_op terms, whichever solver is asked, and it is what
\* the storage keeps as Ekin.
C13_KineticPseudoEnergy ==
    /\ hist.call.method = "Ek_tilde" =>
          hist.call.ret = <<Ek_tilde(solver, model.phys, hist.call.args[1])>>
    /\ (Stored(1) /\ storage.Energy) =>
          \A k \in 1..storage.i :
              storage.Ekin[k] = Ek_tilde(solver, model.phys, storage.p[k])

\* C14: P_ext(p_now, p_next, G, u) is the one number -mean(p).(G @ u),
\* mean(p) = (p_now + p_next) / (2 M), for any number of inputs Nu >= 1.
C14_PExtScalar ==
    hist.call.method = "P_ext" =>
        LET a == hist.call.args
            mutv == VScale(RInv(RMul(Two, model.phys.M)), VAdd(a[1], a[2]))
        IN /\ Len(hist.call.ret) = 1
           /\ hist.call.ret[1] = RNeg(Dot(mutv, MatVec(a[3], a[4])))

\* C16: what time_step returns depends on its arguments alone: a call with
\* the arguments of the first call returns what the first call returned,
\* whatever calls were made in between.
C16_StepIsPure ==
    (last.called /\ hist.first.args # <<>>
        /\ <<last.qlast, last.qnow, last.rn, last.unow, last.ConstantRmid>> = hist.first.args)
    => last.ret = hist.first.ret

\* C17: strings that are separate instances share no state: each string built
\* keeps, in its attributes and in what its setting() reports, the defaults
\* of the module as written in its source overridden by its own keywords,
\* whatever strings are built after it; a string built without keywords has
\* the defaults as written.
C17_StringsShareNoState ==
    \A k \in 1..Len(string_module.models) :
        LET own == update(DEFAULT_STRING_PARAMS, string_module.models[k].kwargs)
        IN /\ string_module.models[k].attrs = own
           /\ setting(k) = own

\* C19: when two solvers share one Model and their integrate calls
\* interleave, each call makes its time vector and its storage of its own
\* int(duration / dt) steps, loops over that many steps without an error,
\* and has stored that many steps when it returns.
C19_SharedModelRuns ==
    \A e \in Engines :
        /\ shared.eng[e].pc # "IndexError"
        /\ shared.eng[e].pc \in {"l415", "loop", "done"} =>
              (shared.eng[e].tlen = shared.eng[e].own
                  /\ shared.eng[e].reserved = shared.eng[e].own)
        /\ shared.eng[e].pc \in {"loop", "done"} =>
              shared.eng[e].bound = shared.eng[e].own
        /\ shared.eng[e].pc = "done" => shared.eng[e].stored = shared.eng[e].own

\* C30: an integrate call of sav_solver.py whose duration is shorter than one
\* sample period (Nt = 0) makes no step, never calls store, and returns
\* without raising.
C30_EmptyRunReturns ==
    (solver.impl = "sav_solver" /\ storage.reserved /\ run.Nt = 0
        /\ run.pc \notin {"idle", "calls", "called"}) =>
        /\ hist.steps = 0
        /\ hist.store_calls = <<>>
        /\ run.pc \in {"loop", "done"}

\* C23: after a step of sav_solver.py made with ConstantRmid = False, the Rmid
\* and the A0_inv on the solver are those of this step's q_curr, and the
\* right-hand side and q_next of the step are formed with them; the G on the
\* solver is G(q_curr) after every step, whatever the flag.
C23_RmidOfThisStep ==
    (last.called /\ solver.impl = "sav_solver") =>
        LET Gq == G(model.phys, last.qnow)
            Rq == BcN(Rmid(model.phys, last.qnow), model.phys.N)
        IN /\ solver.Gn = Gq
           /\ ~last.ConstantRmid =>
                 /\ solver.Rmidn = Rq
                 /\ solver.A0_inv_n = A0_inv(solver, model.phys, Rq)
                 /\ solver.RHSn =
                       VAdd(VSub(VAdd(B_op(solver, model.phys, last.qnow),
                                      C_op(solver, model.phys, last.qlast, solver.gn, Rq)),
                                 VScale(last.rn, solver.gn)),
                            MatVec(Gq, last.unow))
                 /\ last.ret[1] = solve(solver, model.phys, solver.gn, solver.A0_inv_n,
                                        solver.RHSn)

\* a step of a damped string made with ConstantRmid = False on a solver whose
\* cached Rmid was still the zeros of __init__
C23_Witness ==
    /\ last.called /\ solver.impl = "sav_solver" /\ ~last.ConstantRmid
    /\ hist.steps = 1 /\ hist.rmid_calls = 1
    /\ solver.Rmidn # VZero(model.phys.N)
    /\ VOk(last.ret[1])

\* C24: a pass of the loop of integrate, of either solver, calls time_step
\* with the carried triplet (q_prev, q_curr, r) and leaves the triplet
\* (old q_curr, q_next, r_next) of what that call returned: the next pass
\* consumes the outputs of this one.
C24_RollingState ==
    [][(run.pc = "loop" /\ run'.i = run.i + 1) =>
          /\ last'.qlast = run.qlast
          /\ last'.qnow = run.qnow
          /\ last'.rn = run.rnow
          /\ run'.qlast = run.qnow
          /\ run'.qnow = last'.ret[1]
          /\ run'.rnow = last'.ret[2]]_vars

\* two passes made by sav_solver.py, the second one moving the string
C24_Witness ==
    /\ solver.impl = "sav_solver" /\ run.i = 2 /\ last.called
    /\ VOk(last.ret[1]) /\ Ok(last.ret[2])
    /\ run.qnow # run.qlast
    /\ last.qnow # last.qlast

\* range(self.model.Nt) of sav_solver.py, line 414, has an index left: Step
\* is enabled in these states and no others
LoopContinues == run.pc = "loop" /\ solver.impl = "sav_solver" /\ run.i < run.Nt

\* the index and the position of the run
loop_index == run.i
loop_pc == run.pc

\* a step of Next that Step makes: the one action that moves the index of a
\* run of sav_solver.py on
LoopPasses == LoopContinues /\ loop_index' = loop_index + 1

\* the for loop of integrate is not interrupted: a pass that can be made is
\* made (weak fairness of Step, with its enabling condition and its steps
\* written out), and the statement after the loop is reached
LoopSpec ==
    /\ Spec
    /\ ([]<>(~LoopContinues) \/ []<><<LoopPasses>>_loop_index)
    /\ WF_loop_pc(Finish)

\* the steps made so far by the run of integrate of sav_solver.py and the
\* time at which each sampled the input
C25_Counted ==
    (solver.impl = "sav_solver" /\ run.pc \in {"loop", "done", "AttributeError"}) =>
        /\ hist.steps = run.i
        /\ run.i <= run.Nt
        /\ run.i >= 1 =>
              /\ last.t = RMul(RAdd(R(run.i - 1), Half), solver.dt)
              /\ last.unow = u_func(run.ufun, last.t)
        /\ run.pc # "loop" => hist.steps = run.Nt

\* C25: integrate of sav_solver.py makes exactly Nt calls of time_step, the
\* call of pass i sampling the input at (i + 0.5) dt, and then leaves the
\* loop: no step is made past Nt.
C25_ExactlyNtSteps ==
    /\ []C25_Counted
    /\ (solver.impl = "sav_solver" /\ run.pc = "loop")
          ~> (run.pc \in {"done", "AttributeError"} /\ hist.steps = run.Nt)

\* a run of two steps that has returned, whose second step met the input
\* switched on at 1.5 dt
C25_Witness ==
    /\ solver.impl = "sav_solver" /\ run.pc = "done"
    /\ run.Nt = 2 /\ hist.steps = 2
    /\ run.ufun = "late" /\ last.unow = <<One>>
    /\ hist.first.args[4] = <<Zero>>

\* C28: on a string of no nonlinearity (NL_type other than GE4, GE and KC:
\* Enl and Fnl are zero) and C0 = 0, every step of integrate of sav_solver.py
\* computes the zero vector for g, takes and returns r = 0 and finds the drift
\* epsilon = 0, whatever lambda0 and whatever the input.
C28_LinearStaysAtZero ==
    (solver.impl = "sav_solver" /\ run.pc \in {"loop", "done", "AttributeError"}
        /\ model.phys.NL_type \notin {"GE4", "GE", "KC"} /\ solver.C0 = Zero) =>
        /\ run.rnow = Zero
        /\ run.i >= 1 =>
              /\ solver.gn = VZero(model.phys.N)
              /\ last.rn = Zero
              /\ last.ret[2] = Zero
              /\ last.ret[5] = Zero
              /\ solver.epsilon = Zero

\* two steps of the linear string with the drift controller on, the second
\* one driven and the string in motion
C28_Witness ==
    /\ solver.impl = "sav_solver" /\ run.pc = "done" /\ run.i = 2
    /\ model.phys.NL_type = "lin" /\ solver.C0 = Zero
    /\ solver.lambda0 = One
    /\ last.unow = <<One>>
    /\ VOk(last.ret[1]) /\ last.ret[4] # VZero(model.phys.N)
    /\ solver.gn = VZero(model.phys.N)

\* C27: for every stored index i >= 1, Pdiss[i] and Pext[i] are computed
\* with the Rmid, the G and the input sample of the time step that took the
\* state from index i - 1 to index i, the step of pass i - 1 of the loop,
\* which sampled the input at (i - 0.5) dt.  (Rmid and G of the string do not
\* depend on q; position k of a sequence is index k - 1.)
C27_PowerOfTheStepBefore ==
    (solver.impl = "sav_solver" /\ storage.reserved /\ storage.Power) =>
        \A k \in 2..storage.i :
            /\ storage.Pdiss[k] =
                  P_diss(solver, model.phys, storage.p[k - 1], storage.p[k],
                         BcN(Rmid(model.phys, storage.q[k - 1]), model.phys.N))
            /\ storage.Pext[k] =
                  P_ext(solver, model.phys, storage.p[k - 1], storage.p[k],
                        G(model.phys, storage.q[k - 1]),
                        u_func(run.ufun, RMul(RAdd(R(k - 2), Half), solver.dt)))[1]

\* C26: a storage asked for the powers keeps the energies too, whatever the
\* caller said of Energy: reserve forces Energy and allocates the energy
\* arrays, every Pstored[i] with i >= 1 is P_stored of Etot[i - 1] and
\* Etot[i], each the energy computed from the p, q and r stored at its index,
\* and the four power entries of index 0 stay 0.
C26_PowerKeepsEnergy ==
    (solver.impl = "sav_solver" /\ storage.reserved /\ storage.Power) =>
        /\ storage.Energy
        /\ Len(storage.Etot) = storage.Nt
        /\ \A k \in 1..storage.i :
              storage.Etot[k] = RAdd(RAdd(Ek_tilde(solver, model.phys, storage.p[k]),
                                          Ep_lin(solver, model.phys, storage.q[k])),
                                     Ep_nl_sav(solver, storage.r[k]))
        /\ \A k \in 2..storage.i :
              storage.Pstored[k] = P_stored(solver, storage.Etot[k - 1], storage.Etot[k])
        /\ storage.Nt >= 1 =>
              /\ storage.Pstored[1] = Zero
              /\ storage.Pdiss[1] = Zero
              /\ storage.Pext[1] = Zero
              /\ storage.Ptot[1] = Zero

\* two stored steps of a run whose caller asked for Power and not for Energy,
\* the energy of the string changing between them
C26_Witness ==
    /\ solver.impl = "sav_solver" /\ storage.reserved
    /\ storage.Power /\ ~storage.Energy_init
    /\ storage.i = 2
    /\ Ok(storage.Pstored[2]) /\ storage.Pstored[2] # Zero

\* ------------------------------------------------------------ the evaluators
\* fd_string_model.py, lines 174-253: a script builds a string and calls
\* Enl, Fnl and EandFnl on it in any order
NL_types == {"GE4", "GE", "KC", "lin"}

\* FD_string_model(sr, NL_type = nl)
BuildString ==
    /\ ~fd_string.built
    /\ \E nl \in NL_types :
          fd_string' = [NoEvaluations EXCEPT !.built = TRUE, !.phys = EvaluatedString(nl)]
    /\ UNCHANGED <<engine_vars, string_module, shared, sweep>>

\* the buffer holds the differences of a vector other than q (kept with what
\* EandFnl returned)
HoldsOther(q) ==
    /\ fd_string.dxq # NoEvaluations.dxq
    /\ fd_string.dxq # dxq_of(fd_string.phys, q)

\* string.Enl(q)
CallEnl ==
    /\ fd_string.built
    /\ \E k \in 1..Len(EvalQs) :
          LET c == Enl_call(fd_string.phys, fd_string.dxq, EvalQs[k])
          IN fd_string' = [fd_string EXCEPT
                             !.dxq = c.dxq,
                             !.Enl[k] = [done |-> TRUE, E |-> c.E, F |-> VZero(MaxN)]]
    /\ UNCHANGED <<engine_vars, string_module, shared, sweep>>

\* string.Fnl(q)
CallFnl ==
    /\ fd_string.built
    /\ \E k \in 1..Len(EvalQs) :
          LET c == Fnl_call(fd_string.phys, fd_string.dxq, EvalQs[k])
          IN fd_string' = [fd_string EXCEPT
                             !.dxq = c.dxq,
                             !.Fnl[k] = [done |-> TRUE, E |-> Zero, F |-> c.F]]
    /\ UNCHANGED <<engine_vars, string_module, shared, sweep>>

\* string.EandFnl(q)
CallEandFnl ==
    /\ fd_string.built
    /\ \E k \in 1..Len(EvalQs) :
          LET c == EandFnl_call(fd_string.phys, fd_string.dxq, EvalQs[k])
          IN fd_string' = [fd_string EXCEPT
                             !.dxq = c.dxq,
                             !.EandFnl[k] = [done |-> TRUE,
                                             after_other |-> HoldsOther(EvalQs[k]),
                                             E |-> c.E, F |-> c.F]]
    /\ UNCHANGED <<engine_vars, string_module, shared, sweep>>

EvaluatorsNext == BuildString \/ CallEnl \/ CallFnl \/ CallEandFnl

EvaluatorsSpec == Init /\ [][EvaluatorsNext]_vars

\* C22: whatever the NL_type (GE4, GE, KC or another) and whatever was
\* evaluated on the string before, EandFnl(q) returns the pair of what Enl(q)
\* and Fnl(q) return for the same q.
C22_EandFnlIsEnlAndFnl ==
    fd_string.built =>
        \A k \in 1..Len(EvalQs) :
            fd_string.EandFnl[k].done =>
                /\ fd_string.Enl[k].done => fd_string.EandFnl[k].E = fd_string.Enl[k].E
                /\ fd_string.Fnl[k].done => fd_string.EandFnl[k].F = fd_string.Fnl[k].F
                /\ fd_string.EandFnl[k].E = Enl(fd_string.phys, EvalQs[k])
                /\ fd_string.EandFnl[k].F = Fnl(fd_string.phys, EvalQs[k])

\* the three evaluators called on the GE string for the same q, EandFnl with
\* the buffer left by an evaluation of the other vector, the energy and the
\* force in range and not zero
C22_Witness ==
    /\ fd_string.built /\ fd_string.phys.NL_type = "GE"
    /\ fd_string.EandFnl[1].done /\ fd_string.EandFnl[1].after_other
    /\ fd_string.Enl[1].done /\ fd_string.Fnl[1].done
    /\ Ok(fd_string.EandFnl[1].E) /\ fd_string.EandFnl[1].E # Zero
    /\ VOk(fd_string.EandFnl[1].F) /\ fd_string.EandFnl[1].F # VZero(MaxN)

\* ------------------------------------------------------------ run_convergence_new.py
\* the lists of the script: modes (line 21), A0s (line 23), lambda0s (line 34)
\* and the MaxSrs first sample rates of srs (line 40)
sweep_modes == <<"Linear", "KC", "GE4", "GE">>
A0s == <<<<1, 200>>, <<1, 100>>>>
lambda0s == <<0, 1000>>

\* h_stability(odd = True), lines 129-136, from the number of nodes
\* int(floor(kappa l0 / h)) - 1 that the stability condition leaves at a
\* sample rate: an even number loses one node
h_stability(nodes) == IF nodes % 2 = 0 THEN nodes - 1 ELSE nodes

\* the numbers of nodes the stability condition leaves at the sample rates of
\* the sweep
GridSizes == 3..MaxGrid

\* the row of G(q) that holds the one: the node the input excites, counted
\* from 0
ExcitedNode(N) ==
    (CHOOSE i \in 1..N : G([N |-> N, Nu |-> 1], <<>>)[i][1] = One) - 1

\* q[self.q_idx] of store, results_storage.py line 94, on the vector of the N
\* interior nodes 0 .. N - 1: the node stored, -1 when numpy raises IndexError
Indexed(N, q_idx) == IF q_idx \in (-N)..(N - 1) THEN q_idx % N ELSE -1

\* the position of interior node j as a fraction of l0: the ends are fixed
\* and the N nodes between them are h = l0 / (N + 1) apart
position(N, j) == Norm(j + 1, N + 1)

\* lines 62-66: the string of this pass of the three loops
ConvBuild ==
    /\ sweep.pc = "sweep"
    /\ \E nodes \in GridSizes :
          sweep' = [sweep EXCEPT !.pc = "built", !.N = h_stability(nodes),
                                 !.lambda0 = 1]
    /\ UNCHANGED <<engine_vars, string_module, shared, fd_string>>

\* lines 68-70: storage["q_idx"] = np.array([model.N//2 + 1])
ConvConfigure ==
    /\ sweep.pc = "built"
    /\ sweep' = [sweep EXCEPT !.pc = "configured", !.q_idx = (sweep.N \div 2) + 1]
    /\ UNCHANGED <<engine_vars, string_module, shared, fd_string>>

\* lines 84-87: one run of integrate with this storage configuration; every
\* store call keeps q[self.q_idx]
ConvRun ==
    /\ sweep.pc = "configured"
    /\ sweep.lambda0 <= Len(lambda0s)
    /\ sweep' = [sweep EXCEPT
                    !.node = Indexed(sweep.N, sweep.q_idx),
                    !.error = IF Indexed(sweep.N, sweep.q_idx) = -1
                                THEN "IndexError" ELSE "none",
                    !.pc = IF Indexed(sweep.N, sweep.q_idx) = -1 THEN "raised"
                           ELSE "configured",
                    !.lambda0 = @ + 1]
    /\ UNCHANGED <<engine_vars, string_module, shared, fd_string>>

\* the three for statements of lines 59-61: the next sample rate, else the
\* next amplitude, else the next mode, else the end of the sweep
ConvAdvance ==
    /\ sweep.pc = "configured"
    /\ sweep.lambda0 > Len(lambda0s)
    /\ sweep' =
          IF sweep.sr < MaxSrs THEN [sweep EXCEPT !.pc = "sweep", !.sr = @ + 1]
          ELSE IF sweep.A0 < Len(A0s)
                 THEN [sweep EXCEPT !.pc = "sweep", !.sr = 1, !.A0 = @ + 1]
          ELSE IF sweep.mode < Len(sweep_modes)
                 THEN [sweep EXCEPT !.pc = "sweep", !.sr = 1, !.A0 = 1, !.mode = @ + 1]
          ELSE [sweep EXCEPT !.pc = "reference"]
    /\ UNCHANGED <<engine_vars, string_module, shared, fd_string>>

\* lines 96-102 of the reference pass: the string at sr_ref and the same
\* storage["q_idx"] = np.array([model.N//2 + 1])
ConvReference ==
    /\ sweep.pc = "reference"
    /\ \E nodes \in GridSizes :
          sweep' = [sweep EXCEPT !.pc = "reference configured",
                                 !.N = h_stability(nodes),
                                 !.q_idx = (h_stability(nodes) \div 2) + 1]
    /\ UNCHANGED <<engine_vars, string_module, shared, fd_string>>

ConvergenceNext ==
    \/ ConvBuild
    \/ ConvConfigure
    \/ ConvRun
    \/ ConvAdvance
    \/ ConvReference

ConvergenceSpec == Init /\ [][ConvergenceNext]_vars

\* C29: the node whose displacement the convergence script stores is the
\* centre node of the string, the one G excites (index N // 2 of 0 .. N - 1),
\* at position l0 / 2, at every sample rate of the sweep and in the
\* reference pass.
C29_MidpointStored ==
    /\ sweep.pc \in {"configured", "reference configured"} =>
          /\ sweep.q_idx = sweep.N \div 2
          /\ sweep.q_idx = ExcitedNode(sweep.N)
          /\ position(sweep.N, sweep.q_idx) = Half
    /\ sweep.node # -1 =>
          /\ sweep.node = ExcitedNode(sweep.N)
          /\ position(sweep.N, sweep.node) = Half

====
